---------------------------- MODULE Spec2Model ----------------------------
(***************************************************************************)
(* A model of codex-rs/utils/pty/src/pty.rs: spawn_process and the three   *)
(* tasks it starts (the PTY reader, the input writer, the exit waiter),    *)
(* together with the channels that connect them to the callers.            *)
(*                                                                         *)
(* The components are independent apart from the child process, so each    *)
(* is explored by a specification of its own over the same variables:      *)
(*   SpecExit    the child, the exit wait task, terminate, the status      *)
(*               query and the primary exit receiver (FairSpecExit: with   *)
(*               the scheduling of the wait task)                          *)
(*   SpecHandle  SpecExit with subscribe and submit-input interleaved      *)
(*   SpecOutput  the child's output, the reader task, the broadcast        *)
(*               channel and its subscribers                               *)
(*   SpecInput   the producers, the input queue and the writer task        *)
(*   SpecSpawn   the sequential part of spawn_process (unix build)         *)
(*   SpecSpawnEnv  spawn_process with the env mapping and the              *)
(*               supervisor's own environment varying                      *)
(*   SpecTasks   the reader, the writer and the wait task side by side     *)
(*   FairSpecReader, FairSpecWriter   the reader loop and the writer loop  *)
(*               alone, with the scheduling of their tasks                 *)
(*   SpecSched   the writer task on its worker thread, with a child that   *)
(*               may stop reading its input                                *)
(* Two more parts of the repository are modelled beside it, over variables *)
(* of their own:                                                           *)
(*   SpecPrompt  the prompt suggestion settings and gate                   *)
(*               (common/src/prompt_suggestions.rs)                        *)
(*   SpecHandleCall  one call of the request_user_input tool handler       *)
(*               (core/src/tools/handlers/request_user_input.rs)           *)
(***************************************************************************)
EXTENDS Integers, Sequences, FiniteSets, TLC

VARIABLES
    \* ---- the child process and the exit wait task (pty.rs 278-293)
    child,          \* "running" | "exited"
    childStatus,    \* the u32 exit status the OS reports once the child exited
    pcWait,         \* position of the wait task
    waitResult,     \* "pending" | "ok" | "err": what child.wait() returned
    waitCode,       \* the task's local `code`
    waitCalls,      \* number of child.wait() calls that returned
    exit_status,    \* Arc<AtomicBool>: the exit-observed flag
    exit_code,      \* Arc<StdMutex<Option<i32>>>: the exit-code cell
    exitSlot,       \* the value held by the oneshot channel
    exitRx,         \* the primary receiver: "held" | "awaiting" | "received" | "dropped"
    exitDelivered,  \* the codes the primary receiver got
    killLog,        \* the exit-code cell as it was at each terminate() call
    queries,        \* number of exit status queries made
    lastQuery,      \* the result of the latest exit status query
    \* ---- the child's output, the reader task and the broadcast channel (pty.rs 241-262)
    ptyBuf,         \* bytes the child wrote that the master has not read yet
    nextByte,       \* the next byte value the child writes
    slaveOpen,      \* the child still holds the slave end open
    pcReader,       \* "reading" | "sleeping" | "done"
    lastRead,       \* the outcome of the latest reader.read()
    reads,          \* the chunks reader.read() returned, in order
    published,      \* the chunks passed to output_tx_clone.send(), in order
    subs,           \* the broadcast receivers
    \* ---- the producers, the input queue and the writer task (pty.rs 240, 264-276)
    inQueue,        \* the mpsc channel's buffer
    senders,        \* the producers whose Sender is still alive
    submitted,      \* how many buffers each producer has submitted
    accepted,       \* the buffers the queue accepted, in order
    pcWriter,       \* position of the writer task
    writerBuf,      \* the buffer the task dequeued (`bytes`)
    writerLeft,     \* the part of it write_all has not written yet
    dequeued,       \* the buffers the task dequeued, in order
    failedWrites,   \* indices (in dequeued) of the buffers whose write_all failed
    failedFlush,    \* index (in dequeued) of the first buffer whose flush failed, or 0
    master,         \* the bytes written to the PTY master
    \* ---- spawn_process up to the start of the tasks (pty.rs 198-264)
    program,        \* the program argument
    sizeArg,        \* the size argument: Option<(u16, u16)>
    stdoutSize,     \* what ioctl(TIOCGWINSZ) on stdout yields
    stdinSize,      \* what ioctl(TIOCGWINSZ) on stdin yields
    envLines,       \* the LINES variable
    envColumns,     \* the COLUMNS variable
    envArg,         \* the env argument: the mapping the caller supplies
    ambientEnv,     \* the supervisor's own environment (besides LINES/COLUMNS)
    pcSpawn,        \* position in spawn_process
    resolved,       \* the size after resolution (before the clamp)
    ptySize,        \* the size openpty was called with
    spawnResult,    \* "pending" | "ok" | the error
    spawnTrace,     \* the steps this call performed, in order
    calls,          \* number of spawn_process calls started
    resultLog,      \* the results of the calls that returned, in order
    ptysOpen,       \* PTY pairs currently allocated
    childrenAlive,  \* child processes created and running
    tasksRunning,   \* reader, writer and wait tasks started
    handles,        \* SpawnedProcess values returned to callers
    childEnvLog,    \* for each child created: the request, the ambient and the child's environment
    \* ---- the PTY's input buffer and the runtime worker the writer task runs on (pty.rs 266-276)
    childReads,     \* the child still reads its terminal input
    unread,         \* bytes in the PTY's input buffer the child has not read
    otherRuns,      \* polls of other tasks the writer's worker thread has made
    \* ---- prompt suggestion settings (common/src/prompt_suggestions.rs)
    settings,       \* PromptSuggestionsSettings
    updates,        \* the update list the latest toggle returned
    gate,           \* a PromptSuggestionGate
    \* ---- one call of RequestUserInputHandler::handle (request_user_input.rs 36-92)
    invocation,     \* the payload, the collaboration mode and what the session will answer
    pcHandle,       \* position in handle
    args,           \* the parsed arguments (`args`)
    forwarded,      \* the requests passed to session.request_user_input, in order
    response,       \* "none" | "pending" | "received" | "cancelled": the session's answer
    handleResult    \* the Result handle returned, Pending before that

exitVars == <<child, childStatus, pcWait, waitResult, waitCode, waitCalls,
              exit_status, exit_code, exitSlot, exitRx, exitDelivered,
              killLog, queries, lastQuery>>
outVars == <<ptyBuf, nextByte, slaveOpen, pcReader, lastRead, reads,
             published, subs>>
inVars == <<inQueue, senders, submitted, accepted, pcWriter, writerBuf,
            writerLeft, dequeued, failedWrites, failedFlush, master>>
spawnVars == <<program, sizeArg, stdoutSize, stdinSize, envLines, envColumns,
               envArg, ambientEnv, pcSpawn, resolved, ptySize, spawnResult,
               spawnTrace, calls, resultLog, ptysOpen, childrenAlive, tasksRunning,
               handles, childEnvLog>>
schedVars == <<childReads, unread, otherRuns>>
promptVars == <<settings, updates, gate>>
ruiVars == <<invocation, pcHandle, args, forwarded, response, handleResult>>
vars == <<exitVars, outVars, inVars, spawnVars, schedVars, promptVars, ruiVars>>

\* Option<T>: None is the empty sequence, Some(x) the one-element sequence.
None == <<>>
Some(x) == <<x>>

(***************************************************************************)
(* Bounds of the model.                                                    *)
(***************************************************************************)
\* terminate() calls explored
MaxTerminate == 2
\* exit status queries explored
MaxQueries == 2
\* bytes the child writes to its terminal
MaxBytes == 4
\* size of the reader's buffer (8192 in the program), scaled down
ReadBufSize == 2
\* capacity of the broadcast channel (256 in the program), scaled down
OutputCapacity == 2
\* buffers each producer submits
MaxSubmits == 2
\* capacity of the input queue (128 in the program), scaled down
InputCapacity == 2
\* spawn_process calls explored
MaxCalls == 2
\* The room of the PTY's input buffer, in bytes (scaled down from the kernel's).
PtyInCapacity == 3
\* Polls of other tasks followed on the writer's worker thread.
MaxOtherRuns == 2

(***************************************************************************)
(* The child process and the exit wait task.                               *)
(***************************************************************************)
\* Exit statuses (u32) the OS may report, for a natural exit or a kill. A u32 is
\* the pair <<high 16 bits, low 16 bits>>: 0, 3 and 0xFFFFFFFF.
ExitStatuses == {<<0, 0>>, <<0, 3>>, <<65535, 65535>>}

\* `status.exit_code() as i32`: the u32 reinterpreted as a 32-bit signed integer.
AsI32(u) ==
    IF u[1] >= 32768 THEN (u[1] - 65536) * 65536 + u[2] ELSE u[1] * 65536 + u[2]

\* The child exits by itself.
ChildExit ==
    /\ child = "running"
    /\ \E st \in ExitStatuses : childStatus' = st
    /\ child' = "exited"
    /\ slaveOpen' = FALSE
    /\ UNCHANGED <<pcWait, waitResult, waitCode, waitCalls, exit_status, exit_code,
                   exitSlot, exitRx, exitDelivered, killLog, queries, lastQuery>>
    /\ UNCHANGED <<ptyBuf, nextByte, pcReader, lastRead, reads, published, subs>>
    /\ UNCHANGED <<inVars, spawnVars, schedVars, promptVars, ruiVars>>

\* A kill that also records an exit itself.
killAndRecord ==
    /\ IF child = "running"
       THEN /\ child' = "exited"
            /\ \E st \in ExitStatuses : childStatus' = st
            /\ slaveOpen' = FALSE
       ELSE UNCHANGED <<child, childStatus, slaveOpen>>
    /\ exit_status' = TRUE
    /\ exit_code' = Some(-1)

\* PtyChildTerminator::kill: forwards to the killer captured from the child. A
\* running child is ended by the OS; on a child that is gone the call fails and
\* changes nothing.
kill ==
    /\ IF child = "running"
       THEN /\ child' = "exited"
            /\ \E st \in ExitStatuses : childStatus' = st
            /\ slaveOpen' = FALSE
       ELSE UNCHANGED <<child, childStatus, slaveOpen>>
    /\ UNCHANGED <<exit_status, exit_code>>

\* ProcessHandle::terminate: invokes the termination capability; does not wait.
terminate ==
    /\ Len(killLog) < MaxTerminate
    /\ killLog' = Append(killLog, exit_code)
    /\ kill
    /\ UNCHANGED <<pcWait, waitResult, waitCode, waitCalls, exitSlot, exitRx,
                   exitDelivered, queries, lastQuery>>
    /\ UNCHANGED <<ptyBuf, nextByte, pcReader, lastRead, reads, published, subs>>
    /\ UNCHANGED <<inVars, spawnVars, schedVars, promptVars, ruiVars>>

\* A wait that returns the status before the child has exited.
WaitReturnsOkEarly ==
    /\ pcWait = "wait"
    /\ waitResult' = "ok"
    /\ waitCode' = AsI32(childStatus)
    /\ waitCalls' = waitCalls + 1
    /\ pcWait' = "store_flag"
    /\ UNCHANGED <<child, childStatus, exit_status, exit_code, exitSlot, exitRx,
                   exitDelivered, killLog, queries, lastQuery>>
    /\ UNCHANGED <<outVars, inVars, spawnVars, schedVars, promptVars, ruiVars>>

\* child.wait() returns Ok(status): only once the child has exited.
WaitReturnsOk ==
    /\ pcWait = "wait"
    /\ child = "exited"
    /\ waitResult' = "ok"
    /\ waitCode' = AsI32(childStatus)
    /\ waitCalls' = waitCalls + 1
    /\ pcWait' = "store_flag"
    /\ UNCHANGED <<child, childStatus, exit_status, exit_code, exitSlot, exitRx,
                   exitDelivered, killLog, queries, lastQuery>>
    /\ UNCHANGED <<outVars, inVars, spawnVars, schedVars, promptVars, ruiVars>>

\* A wait task that gives up when child.wait() fails.
WaitReturnsErrGivesUp ==
    /\ pcWait = "wait"
    /\ waitResult' = "err"
    /\ waitCode' = -1
    /\ waitCalls' = waitCalls + 1
    /\ pcWait' = "done"
    /\ UNCHANGED <<child, childStatus, exit_status, exit_code, exitSlot, exitRx,
                   exitDelivered, killLog, queries, lastQuery>>
    /\ UNCHANGED <<outVars, inVars, spawnVars, schedVars, promptVars, ruiVars>>

\* child.wait() returns Err(_): the code is the sentinel -1.
WaitReturnsErr ==
    /\ pcWait = "wait"
    /\ waitResult' = "err"
    /\ waitCode' = -1
    /\ waitCalls' = waitCalls + 1
    /\ pcWait' = "store_flag"
    /\ UNCHANGED <<child, childStatus, exit_status, exit_code, exitSlot, exitRx,
                   exitDelivered, killLog, queries, lastQuery>>
    /\ UNCHANGED <<outVars, inVars, spawnVars, schedVars, promptVars, ruiVars>>

\* A wait task that never sets the flag.
WaitSkipFlag ==
    /\ pcWait = "store_flag"
    /\ pcWait' = "store_code"
    /\ UNCHANGED <<child, childStatus, waitResult, waitCode, waitCalls, exit_status,
                   exit_code, exitSlot, exitRx, exitDelivered, killLog, queries, lastQuery>>
    /\ UNCHANGED <<outVars, inVars, spawnVars, schedVars, promptVars, ruiVars>>

\* wait_exit_status.store(true, SeqCst)
WaitStoreFlag ==
    /\ pcWait = "store_flag"
    /\ exit_status' = TRUE
    /\ pcWait' = "store_code"
    /\ UNCHANGED <<child, childStatus, waitResult, waitCode, waitCalls, exit_code,
                   exitSlot, exitRx, exitDelivered, killLog, queries, lastQuery>>
    /\ UNCHANGED <<outVars, inVars, spawnVars, schedVars, promptVars, ruiVars>>

\* A wait task that records the code only for a receiver that still listens.
WaitStoreCodeIfListening ==
    /\ pcWait = "store_code"
    /\ exit_code' = IF exitRx = "dropped" THEN exit_code ELSE Some(waitCode)
    /\ pcWait' = "send"
    /\ UNCHANGED <<child, childStatus, waitResult, waitCode, waitCalls, exit_status,
                   exitSlot, exitRx, exitDelivered, killLog, queries, lastQuery>>
    /\ UNCHANGED <<outVars, inVars, spawnVars, schedVars, promptVars, ruiVars>>

\* A wait task that stores the sentinel in the cell whatever the code is.
WaitStoreCodeSentinel ==
    /\ pcWait = "store_code"
    /\ exit_code' = Some(-1)
    /\ pcWait' = "send"
    /\ UNCHANGED <<child, childStatus, waitResult, waitCode, waitCalls, exit_status,
                   exitSlot, exitRx, exitDelivered, killLog, queries, lastQuery>>
    /\ UNCHANGED <<outVars, inVars, spawnVars, schedVars, promptVars, ruiVars>>

\* if let Ok(mut guard) = wait_exit_code.lock() { *guard = Some(code); }
\* (no holder of the lock panics, so the lock is never poisoned)
WaitStoreCode ==
    /\ pcWait = "store_code"
    /\ exit_code' = Some(waitCode)
    /\ pcWait' = "send"
    /\ UNCHANGED <<child, childStatus, waitResult, waitCode, waitCalls, exit_status,
                   exitSlot, exitRx, exitDelivered, killLog, queries, lastQuery>>
    /\ UNCHANGED <<outVars, inVars, spawnVars, schedVars, promptVars, ruiVars>>

\* A wait task that loops back to wait again after the send.
WaitSendThenWaitAgain ==
    /\ pcWait = "send"
    /\ exitSlot' = IF exitRx = "dropped" THEN exitSlot ELSE Some(waitCode)
    /\ pcWait' = "wait"
    /\ UNCHANGED <<child, childStatus, waitResult, waitCode, waitCalls, exit_status,
                   exit_code, exitRx, exitDelivered, killLog, queries, lastQuery>>
    /\ UNCHANGED <<outVars, inVars, spawnVars, schedVars, promptVars, ruiVars>>

\* let _ = exit_tx.send(code): a oneshot send to a dropped receiver returns the
\* value back as an error, which is ignored.
WaitSend ==
    /\ pcWait = "send"
    /\ exitSlot' = IF exitRx = "dropped" THEN exitSlot ELSE Some(waitCode)
    /\ pcWait' = "done"
    /\ UNCHANGED <<child, childStatus, waitResult, waitCode, waitCalls, exit_status,
                   exit_code, exitRx, exitDelivered, killLog, queries, lastQuery>>
    /\ UNCHANGED <<outVars, inVars, spawnVars, schedVars, promptVars, ruiVars>>

\* The holder of SpawnedProcess.exit_rx starts awaiting it.
AwaitExit ==
    /\ exitRx = "held"
    /\ exitRx' = "awaiting"
    /\ UNCHANGED <<child, childStatus, pcWait, waitResult, waitCode, waitCalls,
                   exit_status, exit_code, exitSlot, exitDelivered, killLog,
                   queries, lastQuery>>
    /\ UNCHANGED <<outVars, inVars, spawnVars, schedVars, promptVars, ruiVars>>

\* The awaiting receiver is woken with the value that was sent.
RecvExit ==
    /\ exitRx = "awaiting"
    /\ exitSlot # None
    /\ exitDelivered' = Append(exitDelivered, exitSlot[1])
    /\ exitSlot' = None
    /\ exitRx' = "received"
    /\ UNCHANGED <<child, childStatus, pcWait, waitResult, waitCode, waitCalls,
                   exit_status, exit_code, killLog, queries, lastQuery>>
    /\ UNCHANGED <<outVars, inVars, spawnVars, schedVars, promptVars, ruiVars>>

\* The holder drops exit_rx (possibly while awaiting it); a value already sent
\* is dropped with it.
DropExitRx ==
    /\ exitRx \in {"held", "awaiting"}
    /\ exitRx' = "dropped"
    /\ exitSlot' = None
    /\ UNCHANGED <<child, childStatus, pcWait, waitResult, waitCode, waitCalls,
                   exit_status, exit_code, exitDelivered, killLog, queries, lastQuery>>
    /\ UNCHANGED <<outVars, inVars, spawnVars, schedVars, promptVars, ruiVars>>

\* The exit status query: "not yet exited" until the flag is set, then the
\* content of the cell.
NotYetExited == [exited |-> FALSE, code |-> None]
ExitStatusQuery ==
    IF exit_status THEN [exited |-> TRUE, code |-> exit_code] ELSE NotYetExited

QueryExit ==
    /\ queries < MaxQueries
    /\ queries' = queries + 1
    /\ lastQuery' = ExitStatusQuery
    /\ UNCHANGED <<child, childStatus, pcWait, waitResult, waitCode, waitCalls,
                   exit_status, exit_code, exitSlot, exitRx, exitDelivered, killLog>>
    /\ UNCHANGED <<outVars, inVars, spawnVars, schedVars, promptVars, ruiVars>>


(***************************************************************************)
(* The child's output, the reader task and the broadcast channel.          *)
(***************************************************************************)
Min(a, b) == IF a < b THEN a ELSE b
Max(a, b) == IF a > b THEN a ELSE b

\* The receivers: 0 is initial_output_rx, 1 is created later with subscribe().
SubIds == {0, 1}

\* The child writes one more byte to its terminal; the bytes are 1, 2, 3, ...
ChildWrite ==
    /\ child = "running"
    /\ slaveOpen
    /\ nextByte <= MaxBytes
    /\ ptyBuf' = Append(ptyBuf, nextByte)
    /\ nextByte' = nextByte + 1
    /\ UNCHANGED <<slaveOpen, pcReader, lastRead, reads, published, subs>>
    /\ UNCHANGED <<exitVars, inVars, spawnVars, schedVars, promptVars, ruiVars>>

\* A send that publishes every byte as a chunk of its own.
sendSplit(chunk) ==
    published' = published \o [i \in 1 .. Len(chunk) |-> <<chunk[i]>>]

\* output_tx_clone.send(chunk): the chunk becomes the newest value of the
\* channel; with no receiver the send fails and the error is ignored.
send(chunk) == published' = Append(published, chunk)

\* reader.read(&mut buf) returns Ok(n), n > 0: the first n pending bytes, at most
\* the buffer's size; buf[..n].to_vec() is sent.
ReadData ==
    /\ pcReader = "reading"
    /\ ptyBuf # <<>>
    /\ \E n \in 1 .. Min(Len(ptyBuf), ReadBufSize) :
          /\ reads' = Append(reads, SubSeq(ptyBuf, 1, n))
          /\ send(SubSeq(ptyBuf, 1, n))
          /\ ptyBuf' = SubSeq(ptyBuf, n + 1, Len(ptyBuf))
    /\ lastRead' = "data"
    /\ UNCHANGED <<nextByte, slaveOpen, pcReader, subs>>
    /\ UNCHANGED <<exitVars, inVars, spawnVars, schedVars, promptVars, ruiVars>>

\* reader.read returns Ok(0): the slave end is closed and nothing is pending.
ReadEof ==
    /\ pcReader = "reading"
    /\ ptyBuf = <<>>
    /\ ~slaveOpen
    /\ pcReader' = "done"
    /\ lastRead' = "eof"
    /\ UNCHANGED <<ptyBuf, nextByte, slaveOpen, reads, published, subs>>
    /\ UNCHANGED <<exitVars, inVars, spawnVars, schedVars, promptVars, ruiVars>>

\* A reader loop that any error ends, an interrupted read too.
ReadInterruptedEndsLoop ==
    /\ pcReader = "reading"
    /\ pcReader' = "done"
    /\ lastRead' = "interrupted"
    /\ UNCHANGED <<ptyBuf, nextByte, slaveOpen, reads, published, subs>>
    /\ UNCHANGED <<exitVars, inVars, spawnVars, schedVars, promptVars, ruiVars>>

\* reader.read returns Err(Interrupted): continue.
ReadInterrupted ==
    /\ pcReader = "reading"
    /\ lastRead' = "interrupted"
    /\ UNCHANGED <<ptyBuf, nextByte, slaveOpen, pcReader, reads, published, subs>>
    /\ UNCHANGED <<exitVars, inVars, spawnVars, schedVars, promptVars, ruiVars>>

\* reader.read returns Err(WouldBlock), which a non-blocking handle does when
\* nothing is pending and the slave end is open: the task goes to sleep for 5 ms.
ReadWouldBlock ==
    /\ pcReader = "reading"
    /\ ptyBuf = <<>>
    /\ slaveOpen
    /\ lastRead' = "would_block"
    /\ pcReader' = "sleeping"
    /\ UNCHANGED <<ptyBuf, nextByte, slaveOpen, reads, published, subs>>
    /\ UNCHANGED <<exitVars, inVars, spawnVars, schedVars, promptVars, ruiVars>>

\* std::thread::sleep(Duration::from_millis(5)) returns; continue.
ReaderWakes ==
    /\ pcReader = "sleeping"
    /\ pcReader' = "reading"
    /\ UNCHANGED <<ptyBuf, nextByte, slaveOpen, lastRead, reads, published, subs>>
    /\ UNCHANGED <<exitVars, inVars, spawnVars, schedVars, promptVars, ruiVars>>

\* A reader that takes a read error for the end of the process and records it.
ReadErrorRecordsExit ==
    /\ pcReader = "reading"
    /\ pcReader' = "done"
    /\ lastRead' = "error"
    /\ exit_status' = TRUE
    /\ exit_code' = IF exit_code = None THEN Some(-1) ELSE exit_code
    /\ UNCHANGED <<ptyBuf, nextByte, slaveOpen, reads, published, subs>>
    /\ UNCHANGED <<child, childStatus, pcWait, waitResult, waitCode, waitCalls,
                   exitSlot, exitRx, exitDelivered, killLog, queries, lastQuery>>
    /\ UNCHANGED <<inVars, spawnVars, schedVars, promptVars, ruiVars>>

\* reader.read returns any other error: break.
ReadError ==
    /\ pcReader = "reading"
    /\ pcReader' = "done"
    /\ lastRead' = "error"
    /\ UNCHANGED <<ptyBuf, nextByte, slaveOpen, reads, published, subs>>
    /\ UNCHANGED <<exitVars, inVars, spawnVars, schedVars, promptVars, ruiVars>>

\* A subscribe that replays the chunks the channel still retains.
subscribeWithBacklog(s) ==
    subs' = [subs EXCEPT ![s] = [state |-> "active",
                                 next |-> IF Len(published) > OutputCapacity
                                          THEN Len(published) - OutputCapacity + 1
                                          ELSE 1,
                                 subAt |-> Len(published),
                                 late |-> (pcReader = "done"),
                                 received |-> <<>>,
                                 missed |-> 0]]

\* output_tx.subscribe(): a receiver positioned at the channel's tail.
subscribe(s) ==
    subs' = [subs EXCEPT ![s] = [state |-> "active",
                                 next |-> Len(published) + 1,
                                 subAt |-> Len(published),
                                 late |-> (pcReader = "done"),
                                 received |-> <<>>,
                                 missed |-> 0]]

Subscribe(s) ==
    /\ s \in SubIds \ {0}
    /\ subs[s].state = "none"
    /\ subscribe(s)
    /\ UNCHANGED <<ptyBuf, nextByte, slaveOpen, pcReader, lastRead, reads,
                   published>>
    /\ UNCHANGED <<exitVars, inVars, spawnVars, schedVars, promptVars, ruiVars>>

\* A channel that retains one chunk less than its capacity.
OldestRetainedOneLess == Max(1, Len(published) - OutputCapacity + 2)

\* The oldest chunk the channel still retains: it keeps the newest
\* OutputCapacity values.
OldestRetained == Max(1, Len(published) - OutputCapacity + 1)

\* Receiver::recv with a value pending: the next chunk, or, when the receiver
\* fell behind the retained window, Err(Lagged(n)) and a jump to the oldest
\* retained chunk.
recv(s) ==
    IF subs[s].next < OldestRetained
    THEN subs' = [subs EXCEPT ![s].missed = @ + (OldestRetained - subs[s].next),
                              ![s].next = OldestRetained]
    ELSE subs' = [subs EXCEPT ![s].received = Append(@, published[subs[s].next]),
                              ![s].next = @ + 1]

RecvChunk(s) ==
    /\ s \in SubIds
    /\ subs[s].state = "active"
    /\ subs[s].next <= Len(published)
    /\ recv(s)
    /\ UNCHANGED <<ptyBuf, nextByte, slaveOpen, pcReader, lastRead, reads,
                   published>>
    /\ UNCHANGED <<exitVars, inVars, spawnVars, schedVars, promptVars, ruiVars>>

\* A receiver is dropped.
DropSub(s) ==
    /\ s \in SubIds
    /\ subs[s].state = "active"
    /\ subs' = [subs EXCEPT ![s].state = "dropped"]
    /\ UNCHANGED <<ptyBuf, nextByte, slaveOpen, pcReader, lastRead, reads,
                   published>>
    /\ UNCHANGED <<exitVars, inVars, spawnVars, schedVars, promptVars, ruiVars>>


(***************************************************************************)
(* The producers, the input queue and the writer task.                     *)
(***************************************************************************)
\* The producers, each holding a clone of the input Sender; sender 0 is the
\* handle's own writer_tx.
Producers == {1, 2}

\* The k-th buffer of producer p: two bytes no other buffer holds.
Buf(p, k) == <<100 * p + 10 * k + 1, 100 * p + 10 * k + 2>>

\* writer_tx.send(bytes).await on a clone of the Sender: the buffer is enqueued
\* when the queue has room; on a full queue the producer stays suspended.
SubmitInput(p) ==
    /\ p \in senders \cap Producers
    /\ submitted[p] < MaxSubmits
    /\ pcWriter # "done"
    /\ Len(inQueue) < InputCapacity
    /\ inQueue' = Append(inQueue, Buf(p, submitted[p] + 1))
    /\ accepted' = Append(accepted, Buf(p, submitted[p] + 1))
    /\ submitted' = [submitted EXCEPT ![p] = @ + 1]
    /\ UNCHANGED <<senders, pcWriter, writerBuf, writerLeft, dequeued, failedWrites,
                   failedFlush, master>>
    /\ UNCHANGED <<exitVars, outVars, spawnVars, schedVars, promptVars, ruiVars>>

\* A Sender is dropped: a producer's clone, or (0) the handle's own writer_tx.
DropSender(p) ==
    /\ p \in senders
    /\ senders' = senders \ {p}
    /\ UNCHANGED <<inQueue, submitted, accepted, pcWriter, writerBuf, writerLeft,
                   dequeued, failedWrites, failedFlush, master>>
    /\ UNCHANGED <<exitVars, outVars, spawnVars, schedVars, promptVars, ruiVars>>

\* A recv that yields the newest buffer of the queue.
WriterRecvNewest ==
    /\ pcWriter = "recv"
    /\ inQueue # <<>>
    /\ writerBuf' = inQueue[Len(inQueue)]
    /\ writerLeft' = inQueue[Len(inQueue)]
    /\ inQueue' = SubSeq(inQueue, 1, Len(inQueue) - 1)
    /\ dequeued' = Append(dequeued, inQueue[Len(inQueue)])
    /\ pcWriter' = "write"
    /\ UNCHANGED <<senders, submitted, accepted, failedWrites, failedFlush, master>>
    /\ UNCHANGED <<exitVars, outVars, spawnVars, schedVars, promptVars, ruiVars>>

\* writer_rx.recv().await yields Some(bytes); the task takes the writer's lock,
\* which nothing else holds.
WriterRecv ==
    /\ pcWriter = "recv"
    /\ inQueue # <<>>
    /\ writerBuf' = Head(inQueue)
    /\ writerLeft' = Head(inQueue)
    /\ inQueue' = Tail(inQueue)
    /\ dequeued' = Append(dequeued, Head(inQueue))
    /\ pcWriter' = "write"
    /\ UNCHANGED <<senders, submitted, accepted, failedWrites, failedFlush, master>>
    /\ UNCHANGED <<exitVars, outVars, spawnVars, schedVars, promptVars, ruiVars>>

\* writer_rx.recv().await yields None: every Sender is gone and the queue is
\* empty; the loop ends.
WriterClosed ==
    /\ pcWriter = "recv"
    /\ inQueue = <<>>
    /\ senders = {}
    /\ pcWriter' = "done"
    /\ UNCHANGED <<inQueue, senders, submitted, accepted, writerBuf, writerLeft,
                   dequeued, failedWrites, failedFlush, master>>
    /\ UNCHANGED <<exitVars, outVars, spawnVars, schedVars, promptVars, ruiVars>>

\* A single write() in place of write_all: whatever the first write() accepts
\* is all that is written.
WriteOnce ==
    /\ pcWriter = "write"
    /\ \E n \in 1 .. Len(writerLeft) :
          /\ childReads \/ unread + n <= PtyInCapacity
          /\ master' = master \o SubSeq(writerLeft, 1, n)
          /\ writerLeft' = <<>>
          /\ pcWriter' = "flush"
          /\ unread' = IF childReads THEN 0 ELSE unread + n
    /\ UNCHANGED <<inQueue, senders, submitted, accepted, writerBuf, dequeued,
                   failedWrites, failedFlush, childReads, otherRuns>>
    /\ UNCHANGED <<exitVars, outVars, spawnVars, promptVars, ruiVars>>

\* guard.write_all(&bytes): one write() of the loop inside write_all accepts the
\* next n bytes; after the last byte write_all returns Ok.  The master is a
\* blocking descriptor: a write() returns once the PTY's input buffer has room
\* for what it accepts, and a child that reads its input empties the buffer.
WriteSome ==
    /\ pcWriter = "write"
    /\ \E n \in 1 .. Len(writerLeft) :
          /\ childReads \/ unread + n <= PtyInCapacity
          /\ master' = master \o SubSeq(writerLeft, 1, n)
          /\ writerLeft' = SubSeq(writerLeft, n + 1, Len(writerLeft))
          /\ pcWriter' = IF n = Len(writerLeft) THEN "flush" ELSE "write"
          /\ unread' = IF childReads THEN 0 ELSE unread + n
    /\ UNCHANGED <<inQueue, senders, submitted, accepted, writerBuf, dequeued,
                   failedWrites, failedFlush, childReads, otherRuns>>
    /\ UNCHANGED <<exitVars, outVars, spawnVars, promptVars, ruiVars>>

\* A writer loop that a failed write_all ends.
WriteFailsEndsLoop ==
    /\ pcWriter = "write"
    /\ failedWrites' = failedWrites \cup {Len(dequeued)}
    /\ writerLeft' = <<>>
    /\ pcWriter' = "done"
    /\ UNCHANGED <<inQueue, senders, submitted, accepted, writerBuf, dequeued,
                   failedFlush, master>>
    /\ UNCHANGED <<exitVars, outVars, spawnVars, schedVars, promptVars, ruiVars>>

\* guard.write_all(&bytes) returns Err: a write() failed, the rest of the buffer
\* is not written and the error is ignored.
WriteFails ==
    /\ pcWriter = "write"
    /\ failedWrites' = failedWrites \cup {Len(dequeued)}
    /\ writerLeft' = <<>>
    /\ pcWriter' = "flush"
    /\ UNCHANGED <<inQueue, senders, submitted, accepted, writerBuf, dequeued,
                   failedFlush, master>>
    /\ UNCHANGED <<exitVars, outVars, spawnVars, schedVars, promptVars, ruiVars>>

\* guard.flush() returns Ok; the guard is released and the loop goes back to
\* recv.
WriterFlush ==
    /\ pcWriter = "flush"
    /\ pcWriter' = "recv"
    /\ UNCHANGED <<inQueue, senders, submitted, accepted, writerBuf, writerLeft,
                   dequeued, failedWrites, failedFlush, master>>
    /\ UNCHANGED <<exitVars, outVars, spawnVars, schedVars, promptVars, ruiVars>>


(***************************************************************************)

\* guard.flush() returns Err: the error is ignored; the guard is released and
\* the loop goes back to recv.
FlushFails ==
    /\ pcWriter = "flush"
    /\ failedFlush' = IF failedFlush = 0 THEN Len(dequeued) ELSE failedFlush
    /\ pcWriter' = "recv"
    /\ UNCHANGED <<inQueue, senders, submitted, accepted, writerBuf, writerLeft,
                   dequeued, failedWrites, master>>
    /\ UNCHANGED <<exitVars, outVars, spawnVars, schedVars, promptVars, ruiVars>>


(* spawn_process: the sequential part, up to the returned SpawnedProcess.  *)
(* Strings are sequences of one-character strings.                         *)
(***************************************************************************)
DigitValue == [c \in {"0", "1", "2", "3", "4", "5", "6", "7", "8", "9"} |->
                 CASE c = "0" -> 0 [] c = "1" -> 1 [] c = "2" -> 2 [] c = "3" -> 3
                   [] c = "4" -> 4 [] c = "5" -> 5 [] c = "6" -> 6 [] c = "7" -> 7
                   [] c = "8" -> 8 [] c = "9" -> 9]

RECURSIVE DecimalValue(_)
DecimalValue(digits) ==
    IF digits = <<>> THEN 0
    ELSE 10 * DecimalValue(SubSeq(digits, 1, Len(digits) - 1))
         + DigitValue[digits[Len(digits)]]

\* str::parse::<u16>: an optional '+', then one or more decimal digits, the
\* value at most 65535; nothing is trimmed.
ParseU16(str) ==
    LET digits == IF str # <<>> /\ str[1] = "+" THEN Tail(str) ELSE str
    IN  IF digits = <<>> \/ \E i \in 1 .. Len(digits) : digits[i] \notin DOMAIN DigitValue
        THEN None
        ELSE IF DecimalValue(digits) > 65535 THEN None
             ELSE Some(DecimalValue(digits))

\* Option::or_else
OrElse(a, b) == IF a # None THEN a ELSE b

\* A parse_env_size that defaults a dimension it cannot read to 24 or 80.
parse_env_size_defaulting(lines, columns) ==
    LET rows == IF lines = None THEN None ELSE ParseU16(lines[1])
        cols == IF columns = None THEN None ELSE ParseU16(columns[1])
    IN  IF rows = None /\ cols = None THEN None
        ELSE Some(<<IF rows = None \/ rows = Some(0) THEN 24 ELSE rows[1],
                    IF cols = None \/ cols = Some(0) THEN 80 ELSE cols[1]>>)

\* A parse_env_size that yields the two dimensions the wrong way round.
parse_env_size_swapped(lines, columns) ==
    LET rows == IF lines = None THEN None ELSE ParseU16(lines[1])
        cols == IF columns = None THEN None ELSE ParseU16(columns[1])
    IN  IF rows = None \/ cols = None THEN None
        ELSE IF rows[1] = 0 \/ cols[1] = 0 THEN None
             ELSE Some(<<cols[1], rows[1]>>)

\* parse_env_size, for LINES = lines and COLUMNS = columns (None: unset).
parse_env_size(lines, columns) ==
    LET rows == IF lines = None THEN None ELSE ParseU16(lines[1])
        cols == IF columns = None THEN None ELSE ParseU16(columns[1])
    IN  IF rows = None \/ cols = None THEN None
        ELSE IF rows[1] = 0 \/ cols[1] = 0 THEN None
             ELSE Some(<<rows[1], cols[1]>>)

\* detect_terminal_size_from_fd, for the outcome of ioctl(fd, TIOCGWINSZ).
detect_terminal_size_from_fd(io) ==
    IF io.rc # 0 \/ io.row = 0 \/ io.col = 0 THEN None ELSE Some(<<io.row, io.col>>)

\* A detect_terminal_size that lets LINES/COLUMNS override the terminal.
detect_terminal_size_env_first ==
    OrElse(parse_env_size(envLines, envColumns),
           OrElse(detect_terminal_size_from_fd(stdoutSize),
                  detect_terminal_size_from_fd(stdinSize)))

\* detect_terminal_size (unix)
detect_terminal_size ==
    OrElse(OrElse(detect_terminal_size_from_fd(stdoutSize),
                  detect_terminal_size_from_fd(stdinSize)),
           parse_env_size(envLines, envColumns))

\* A resolution that asks the terminal and the environment first.
ResolvedSizeDetectedFirst == OrElse(detect_terminal_size, sizeArg)

\* size.or_else(detect_terminal_size)
ResolvedSize == OrElse(sizeArg, detect_terminal_size)

\* A PtySize built from the size as it is.
ClampSizeMissing(size) == size

\* PtySize { rows: size.0.max(1), cols: size.1.max(1), .. }
ClampSize(size) == <<Max(size[1], 1), Max(size[2], 1)>>

\* The inputs of a call.
Programs == {<<>>, <<"s", "h">>}
SizeArgs == {None, Some(<<0, 0>>), Some(<<0, 80>>), Some(<<24, 80>>),
             Some(<<1, 65535>>)}
IoctlResults == {[rc |-> -1, row |-> 0, col |-> 0], [rc |-> 0, row |-> 0, col |-> 0],
                 [rc |-> 0, row |-> 40, col |-> 0], [rc |-> 0, row |-> 40, col |-> 100]}
StdinResults == {[rc |-> -1, row |-> 0, col |-> 0], [rc |-> 0, row |-> 0, col |-> 30],
                 [rc |-> 0, row |-> 50, col |-> 132]}
EnvValues == {None, Some(<<>>), Some(<<"0">>), Some(<<"x">>), Some(<<"+", "7">>),
              Some(<<"4", "2">>), Some(<<"1", "2", "0">>),
              Some(<<"7", "0", "0", "0", "0">>)}

ChooseInputs ==
    /\ program' \in Programs
    /\ sizeArg' \in SizeArgs
    /\ stdoutSize' \in IoctlResults
    /\ stdinSize' \in StdinResults
    /\ envLines' \in EnvValues
    /\ envColumns' \in EnvValues
    /\ UNCHANGED <<envArg, ambientEnv>>

\* return Err(..) / the `?` operator
Fail(err) ==
    /\ spawnResult' = err
    /\ resultLog' = Append(resultLog, err)
    /\ pcSpawn' = "returned"

inputs == <<program, sizeArg, stdoutSize, stdinSize, envLines, envColumns, envArg,
            ambientEnv>>

\* A spawn_process without the check of the program name.
CheckProgramMissing ==
    /\ pcSpawn = "check_program"
    /\ pcSpawn' = "resolve_size"
    /\ UNCHANGED <<spawnResult, resultLog>>
    /\ UNCHANGED <<inputs, resolved, ptySize, spawnTrace, calls, ptysOpen,
                   childrenAlive, tasksRunning, handles, childEnvLog>>
    /\ UNCHANGED <<exitVars, outVars, inVars, schedVars, promptVars, ruiVars>>

\* if program.is_empty() { bail!("missing program for PTY spawn") }
CheckProgram ==
    /\ pcSpawn = "check_program"
    /\ IF program = <<>>
       THEN Fail("err_program")
       ELSE pcSpawn' = "resolve_size" /\ UNCHANGED <<spawnResult, resultLog>>
    /\ UNCHANGED <<inputs, resolved, ptySize, spawnTrace, calls, ptysOpen,
                   childrenAlive, tasksRunning, handles, childEnvLog>>
    /\ UNCHANGED <<exitVars, outVars, inVars, schedVars, promptVars, ruiVars>>

\* size.or_else(detect_terminal_size).ok_or_else(|| anyhow!("missing terminal size"))?
ResolveSize ==
    /\ pcSpawn = "resolve_size"
    /\ spawnTrace' = Append(spawnTrace, "resolve_size")
    /\ IF ResolvedSize = None
       THEN Fail("err_size") /\ UNCHANGED resolved
       ELSE /\ resolved' = ResolvedSize
            /\ pcSpawn' = "openpty"
            /\ UNCHANGED <<spawnResult, resultLog>>
    /\ UNCHANGED <<inputs, ptySize, calls, ptysOpen, childrenAlive, tasksRunning, handles, childEnvLog>>
    /\ UNCHANGED <<exitVars, outVars, inVars, schedVars, promptVars, ruiVars>>

\* pty_system.openpty(PtySize {..})?
OpenPty ==
    /\ pcSpawn = "openpty"
    /\ spawnTrace' = Append(spawnTrace, "openpty")
    /\ \/ /\ ptySize' = Some(ClampSize(resolved[1]))
          /\ ptysOpen' = ptysOpen + 1
          /\ pcSpawn' = "spawn_command"
          /\ UNCHANGED <<spawnResult, resultLog>>
       \/ /\ Fail("err_openpty")
          /\ UNCHANGED <<ptySize, ptysOpen>>
    /\ UNCHANGED <<inputs, resolved, calls, childrenAlive, tasksRunning, handles, childEnvLog>>
    /\ UNCHANGED <<exitVars, outVars, inVars, schedVars, promptVars, ruiVars>>

\* The variables an environment may hold, and the environments: a function
\* from the variables to Option<value>.
EnvKeys == {"PATH", "TOKEN"}
AmbientEnvs == [EnvKeys -> {None, Some("ambient")}]
EnvArgs == [EnvKeys -> {None, Some("given")}]

\* CommandBuilder::new: the builder's environment starts as the environment of
\* the calling process.
CommandBuilderNew(ambient) == ambient

\* command_builder.env_clear()
env_clear(envs) == [k \in EnvKeys |-> None]

\* command_builder.env(key, value)
env(envs, key, value) == [envs EXCEPT ![key] = Some(value)]

RECURSIVE SetEnvs(_, _, _)
\* for (key, value) in env { command_builder.env(key, value); }
SetEnvs(envs, mapping, keys) ==
    IF keys = {} THEN envs
    ELSE LET key == CHOOSE k \in keys : TRUE
         IN  SetEnvs(env(envs, key, mapping[key][1]), mapping, keys \ {key})

\* A command built without env_clear(): the mapping is laid over the
\* supervisor's environment.
ChildEnvInherited(ambient, mapping) ==
    SetEnvs(CommandBuilderNew(ambient), mapping,
            {k \in EnvKeys : mapping[k] # None})

\* The environment of the command spawn_process builds: new, env_clear, then
\* env for every entry of the mapping.
ChildEnv(ambient, mapping) ==
    SetEnvs(env_clear(CommandBuilderNew(ambient)), mapping,
            {k \in EnvKeys : mapping[k] # None})

\* pair.slave.spawn_command(command_builder)?: on failure the pair is dropped.
SpawnCommand ==
    /\ pcSpawn = "spawn_command"
    /\ spawnTrace' = Append(spawnTrace, "spawn_command")
    /\ \/ /\ childrenAlive' = childrenAlive + 1
          /\ childEnvLog' = Append(childEnvLog,
                                   [request |-> envArg, ambient |-> ambientEnv,
                                    child |-> ChildEnv(ambientEnv, envArg)])
          /\ pcSpawn' = "clone_reader"
          /\ UNCHANGED <<spawnResult, resultLog, ptysOpen>>
       \/ /\ Fail("err_spawn")
          /\ ptysOpen' = ptysOpen - 1
          /\ UNCHANGED <<childrenAlive, childEnvLog>>
    /\ UNCHANGED <<inputs, resolved, ptySize, calls, tasksRunning, handles>>
    /\ UNCHANGED <<exitVars, outVars, inVars, schedVars, promptVars, ruiVars>>

\* pair.master.try_clone_reader()?, then spawn_blocking(reader loop): on failure
\* the pair and the child handle are dropped; dropping the handle does not end
\* the child.
CloneReader ==
    /\ pcSpawn = "clone_reader"
    /\ spawnTrace' = Append(spawnTrace, "clone_reader")
    /\ \/ /\ tasksRunning' = tasksRunning + 1
          /\ pcSpawn' = "take_writer"
          /\ UNCHANGED <<spawnResult, resultLog, ptysOpen>>
       \/ /\ Fail("err_clone_reader")
          /\ ptysOpen' = ptysOpen - 1
          /\ UNCHANGED tasksRunning
    /\ UNCHANGED <<inputs, resolved, ptySize, calls, childrenAlive, handles, childEnvLog>>
    /\ UNCHANGED <<exitVars, outVars, inVars, schedVars, promptVars, ruiVars>>

\* pair.master.take_writer()?, then tokio::spawn(writer loop): on failure the
\* reader task started before keeps running, with its clone of the master.
TakeWriter ==
    /\ pcSpawn = "take_writer"
    /\ spawnTrace' = Append(spawnTrace, "take_writer")
    /\ \/ /\ tasksRunning' = tasksRunning + 1
          /\ pcSpawn' = "start_wait"
          /\ UNCHANGED <<spawnResult, resultLog>>
       \/ /\ Fail("err_take_writer")
          /\ UNCHANGED tasksRunning
    /\ UNCHANGED <<inputs, resolved, ptySize, calls, ptysOpen, childrenAlive, handles, childEnvLog>>
    /\ UNCHANGED <<exitVars, outVars, inVars, schedVars, promptVars, ruiVars>>

\* spawn_blocking(wait task), ProcessHandle::new, Ok(SpawnedProcess {..})
StartWaitAndReturn ==
    /\ pcSpawn = "start_wait"
    /\ spawnTrace' = Append(spawnTrace, "start_wait")
    /\ tasksRunning' = tasksRunning + 1
    /\ handles' = handles + 1
    /\ spawnResult' = "ok"
    /\ resultLog' = Append(resultLog, "ok")
    /\ pcSpawn' = "returned"
    /\ UNCHANGED <<inputs, resolved, ptySize, calls, ptysOpen, childrenAlive,
                   childEnvLog>>
    /\ UNCHANGED <<exitVars, outVars, inVars, schedVars, promptVars, ruiVars>>

\* The caller is done with the result of a call; what the call allocated and
\* did not release stays.
CallerMovesOn ==
    /\ pcSpawn = "returned"
    /\ calls < MaxCalls
    /\ pcSpawn' = "idle"
    /\ program' = <<"s", "h">>
    /\ sizeArg' = None
    /\ stdoutSize' = [rc |-> -1, row |-> 0, col |-> 0]
    /\ stdinSize' = [rc |-> -1, row |-> 0, col |-> 0]
    /\ envLines' = None
    /\ envColumns' = None
    /\ UNCHANGED <<envArg, ambientEnv>>
    /\ spawnResult' = "pending"
    /\ spawnTrace' = <<>>
    /\ resolved' = None
    /\ ptySize' = None
    /\ UNCHANGED <<calls, resultLog, ptysOpen, childrenAlive, tasksRunning, handles, childEnvLog>>
    /\ UNCHANGED <<exitVars, outVars, inVars, schedVars, promptVars, ruiVars>>

\* The caller calls spawn_process again, with any inputs.
SpawnAgain ==
    /\ pcSpawn = "idle"
    /\ calls' = calls + 1
    /\ ChooseInputs
    /\ pcSpawn' = "check_program"
    /\ UNCHANGED <<resolved, ptySize, spawnResult, spawnTrace, resultLog, ptysOpen,
                   childrenAlive, tasksRunning, handles, childEnvLog>>
    /\ UNCHANGED <<exitVars, outVars, inVars, schedVars, promptVars, ruiVars>>

\* The caller calls spawn_process again with an explicit size, with any env
\* mapping, the supervisor's own environment being any.
SpawnAgainElsewhere ==
    /\ pcSpawn = "idle"
    /\ calls' = calls + 1
    /\ sizeArg' = Some(<<24, 80>>)
    /\ envArg' \in EnvArgs
    /\ ambientEnv' \in AmbientEnvs
    /\ pcSpawn' = "check_program"
    /\ UNCHANGED <<program, stdoutSize, stdinSize, envLines, envColumns>>
    /\ UNCHANGED <<resolved, ptySize, spawnResult, spawnTrace, resultLog, ptysOpen,
                   childrenAlive, tasksRunning, handles, childEnvLog>>
    /\ UNCHANGED <<exitVars, outVars, inVars, schedVars, promptVars, ruiVars>>

(***************************************************************************)
(* The execution contexts of the three tasks (pty.rs 246, 266, 283).       *)
(***************************************************************************)
Tasks == {"reader", "writer", "wait"}

\* tokio::task::spawn_blocking runs the closure on a thread of the blocking
\* pool; tokio::spawn makes the future a task of the cooperative scheduler,
\* polled on one of its worker threads.
TaskContext ==
    [t \in Tasks |-> IF t = "writer" THEN "cooperative" ELSE "blocking"]

\* The task is inside its blocking OS call: reader.read (249), write_all and
\* flush on the master (272-273), child.wait (284).
InBlockingCall(t) ==
    CASE t = "reader" -> pcReader = "reading"
      [] t = "writer" -> pcWriter \in {"write", "flush"}
      [] t = "wait" -> pcWait = "wait"

\* A worker thread of the cooperative scheduler polls one task at a time and
\* gets to the next one when the task it polls reaches an .await: between
\* recv().await and the next recv().await the writer task has none but the
\* uncontended writer.lock().await.
WorkerHeld ==
    \E t \in Tasks : TaskContext[t] = "cooperative" /\ InBlockingCall(t)

\* The write() the writer task is in cannot return: the child does not read
\* and the input buffer has no room for another byte.
WriterStuck ==
    /\ pcWriter = "write"
    /\ ~childReads
    /\ unread + 1 > PtyInCapacity

\* The worker thread the writer task is on polls another task.
OtherTaskRuns ==
    /\ ~WorkerHeld
    /\ otherRuns < MaxOtherRuns
    /\ otherRuns' = otherRuns + 1
    /\ UNCHANGED <<childReads, unread>>
    /\ UNCHANGED <<exitVars, outVars, inVars, spawnVars, promptVars, ruiVars>>

\* The child stops reading its terminal input (it never did, or it is busy).
ChildStopsReading ==
    /\ child = "running"
    /\ childReads
    /\ childReads' = FALSE
    /\ UNCHANGED <<unread, otherRuns>>
    /\ UNCHANGED <<exitVars, outVars, inVars, spawnVars, promptVars, ruiVars>>


(***************************************************************************)
(* Prompt suggestion settings and gate (common/src/prompt_suggestions.rs). *)
(***************************************************************************)
AllSettings == [enabled : BOOLEAN, autorun_enabled : BOOLEAN]

Gates ==
    [suggestions_enabled : BOOLEAN, autorun_enabled : BOOLEAN, intent : BOOLEAN,
     is_review_mode : BOOLEAN, task_running : BOOLEAN, composer_empty : BOOLEAN,
     no_modal_or_popup_active : BOOLEAN, queued_user_messages_empty : BOOLEAN]

\* PromptSuggestionGate::can_autorun
can_autorun(self) ==
    /\ self.autorun_enabled
    /\ self.suggestions_enabled
    /\ self.intent
    /\ ~self.is_review_mode
    /\ ~self.task_running
    /\ self.composer_empty
    /\ self.no_modal_or_popup_active
    /\ self.queued_user_messages_empty

\* PromptSuggestionGate::can_open_view
can_open_view(self) ==
    /\ self.suggestions_enabled
    /\ ~self.is_review_mode
    /\ ~self.task_running
    /\ self.composer_empty
    /\ self.no_modal_or_popup_active

\* A toggle_enabled that leaves autorun as it was.
toggle_enabled_keeps_autorun(self) ==
    [self |-> [enabled |-> ~self.enabled, autorun_enabled |-> self.autorun_enabled],
     updates |-> << <<"PromptSuggestions", ~self.enabled>> >>]

\* PromptSuggestionsSettings::toggle_enabled: the pair (self, updates) it
\* returns.
toggle_enabled(self) ==
    LET enabled == ~self.enabled
        first == << <<"PromptSuggestions", enabled>> >>
    IN  IF ~enabled /\ self.autorun_enabled
        THEN [self |-> [enabled |-> enabled, autorun_enabled |-> FALSE],
              updates |-> Append(first, <<"PromptSuggestionsAutorun", FALSE>>)]
        ELSE [self |-> [enabled |-> enabled,
                        autorun_enabled |-> self.autorun_enabled],
              updates |-> first]

\* PromptSuggestionsSettings::toggle_autorun: the pair (self, updates) it
\* returns.
toggle_autorun(self) ==
    LET enabled == IF ~self.enabled THEN TRUE ELSE self.enabled
        first == IF ~self.enabled
                 THEN << <<"PromptSuggestions", TRUE>> >>
                 ELSE <<>>
        autorun_enabled == ~self.autorun_enabled
    IN  [self |-> [enabled |-> enabled, autorun_enabled |-> autorun_enabled],
         updates |-> Append(first, <<"PromptSuggestionsAutorun", autorun_enabled>>)]

\* The owner of the settings calls toggle_enabled and keeps what it returns.
ToggleEnabled ==
    /\ settings' = toggle_enabled(settings).self
    /\ updates' = toggle_enabled(settings).updates
    /\ UNCHANGED gate
    /\ UNCHANGED <<exitVars, outVars, inVars, spawnVars, schedVars, ruiVars>>

\* The owner of the settings calls toggle_autorun and keeps what it returns.
ToggleAutorun ==
    /\ settings' = toggle_autorun(settings).self
    /\ updates' = toggle_autorun(settings).updates
    /\ UNCHANGED gate
    /\ UNCHANGED <<exitVars, outVars, inVars, spawnVars, schedVars, ruiVars>>

\* A gate is built; every field is public and set by the caller.
BuildGate ==
    /\ gate' \in Gates
    /\ UNCHANGED <<settings, updates>>
    /\ UNCHANGED <<exitVars, outVars, inVars, spawnVars, schedVars, ruiVars>>


(***************************************************************************)
(* RequestUserInputHandler::handle                                         *)
(* (core/src/tools/handlers/request_user_input.rs).                        *)
(***************************************************************************)
ModeKind == {"Plan", "Default", "Execute", "PairProgramming"}

\* ToolPayload: the Function variant and one of the others.
PayloadKinds == {"Function", "Custom"}

\* A question's options: absent, empty, or one option.
OptionLists == {None, Some(<<>>), Some(<<"a">>)}

QuestionSet == [options : OptionLists, is_other : BOOLEAN]

\* The question lists the arguments may hold.
QuestionLists ==
    {<<>>} \cup {<<q>> : q \in QuestionSet}
           \cup {<<q1, q2>> : q1 \in QuestionSet, q2 \in QuestionSet}

\* What handle is called with: the payload, whether its arguments parse, the
\* questions they hold, and the session's collaboration mode.
Invocations ==
    [payload : PayloadKinds, parses : BOOLEAN, questions : QuestionLists,
     mode : ModeKind]

\* request_user_input_unavailable_message
request_user_input_unavailable_message(mode) == None

\* question.options.as_ref().is_none_or(Vec::is_empty)
OptionsMissing(question) ==
    \/ question.options = None
    \/ question.options[1] = <<>>

\* The Result handle returns: Ok(ToolOutput::Function {..}) or
\* Err(FunctionCallError); "Pending" while it has not returned.
Pending == [kind |-> "Pending", message |-> "", success |-> None]
RespondToModel(message) ==
    [kind |-> "RespondToModel", message |-> message, success |-> None]

\* The match on the payload.
MatchPayload ==
    /\ pcHandle = "match_payload"
    /\ IF invocation.payload = "Function"
       THEN /\ pcHandle' = "mode"
            /\ UNCHANGED handleResult
       ELSE /\ pcHandle' = "returned"
            /\ handleResult' = RespondToModel("unsupported payload")
    /\ UNCHANGED <<invocation, args, forwarded, response>>
    /\ UNCHANGED <<exitVars, outVars, inVars, spawnVars, schedVars, promptVars>>

\* session.collaboration_mode().await.mode and the availability test.
CheckMode ==
    /\ pcHandle = "mode"
    /\ IF request_user_input_unavailable_message(invocation.mode) = None
       THEN /\ pcHandle' = "parse"
            /\ UNCHANGED handleResult
       ELSE /\ pcHandle' = "returned"
            /\ handleResult' =
                   RespondToModel(request_user_input_unavailable_message(invocation.mode)[1])
    /\ UNCHANGED <<invocation, args, forwarded, response>>
    /\ UNCHANGED <<exitVars, outVars, inVars, spawnVars, schedVars, promptVars>>

\* parse_arguments(&arguments)?: the error of a failed parse is returned as it
\* is.
ParseArguments ==
    /\ pcHandle = "parse"
    /\ IF invocation.parses
       THEN /\ pcHandle' = "validate"
            /\ args' = Some([questions |-> invocation.questions])
            /\ UNCHANGED handleResult
       ELSE /\ pcHandle' = "returned"
            /\ handleResult' = [kind |-> "parse_arguments", message |-> "parse",
                                success |-> None]
            /\ UNCHANGED args
    /\ UNCHANGED <<invocation, forwarded, response>>
    /\ UNCHANGED <<exitVars, outVars, inVars, spawnVars, schedVars, promptVars>>

\* A handler that forwards the questions as they came.
ValidateAndForwardAsIs ==
    /\ pcHandle = "validate"
    /\ forwarded' = Append(forwarded, args[1])
    /\ pcHandle' = "await_response"
    /\ response' = "pending"
    /\ UNCHANGED <<invocation, args, handleResult>>
    /\ UNCHANGED <<exitVars, outVars, inVars, spawnVars, schedVars, promptVars>>

\* The missing_options test, is_other set on every question, and the call of
\* session.request_user_input with the arguments.
ValidateAndForward ==
    /\ pcHandle = "validate"
    /\ LET questions == args[1].questions
           missing_options == \E i \in 1 .. Len(questions) : OptionsMissing(questions[i])
           marked == [i \in 1 .. Len(questions) |->
                         [questions[i] EXCEPT !.is_other = TRUE]]
       IN  IF missing_options
           THEN /\ pcHandle' = "returned"
                /\ handleResult' = RespondToModel("requires non-empty options")
                /\ UNCHANGED <<args, forwarded, response>>
           ELSE /\ args' = Some([questions |-> marked])
                /\ forwarded' = Append(forwarded, [questions |-> marked])
                /\ pcHandle' = "await_response"
                /\ response' = "pending"
                /\ UNCHANGED handleResult
    /\ UNCHANGED invocation
    /\ UNCHANGED <<exitVars, outVars, inVars, spawnVars, schedVars, promptVars>>

\* session.request_user_input(..).await yields Some(response).
SessionResponds ==
    /\ pcHandle = "await_response"
    /\ response' = "received"
    /\ pcHandle' = "serialize"
    /\ UNCHANGED <<invocation, args, forwarded, handleResult>>
    /\ UNCHANGED <<exitVars, outVars, inVars, spawnVars, schedVars, promptVars>>

\* session.request_user_input(..).await yields None: the request was cancelled.
SessionCancels ==
    /\ pcHandle = "await_response"
    /\ response' = "cancelled"
    /\ pcHandle' = "returned"
    /\ handleResult' = RespondToModel("cancelled")
    /\ UNCHANGED <<invocation, args, forwarded>>
    /\ UNCHANGED <<exitVars, outVars, inVars, spawnVars, schedVars, promptVars>>

\* serde_json::to_string(&response) returns Ok: handle returns the output.
SerializeOk ==
    /\ pcHandle = "serialize"
    /\ pcHandle' = "returned"
    /\ handleResult' = [kind |-> "Ok", message |-> "content",
                        success |-> Some(TRUE)]
    /\ UNCHANGED <<invocation, args, forwarded, response>>
    /\ UNCHANGED <<exitVars, outVars, inVars, spawnVars, schedVars, promptVars>>

\* serde_json::to_string(&response) returns Err.
SerializeFails ==
    /\ pcHandle = "serialize"
    /\ pcHandle' = "returned"
    /\ handleResult' = [kind |-> "Fatal", message |-> "serialize", success |-> None]
    /\ UNCHANGED <<invocation, args, forwarded, response>>
    /\ UNCHANGED <<exitVars, outVars, inVars, spawnVars, schedVars, promptVars>>


(***************************************************************************)
(* Initial states and specifications.                                      *)
(***************************************************************************)
\* The exit side right after spawn_process returned Ok.
InitExit ==
    /\ child = "running"
    /\ childStatus = <<0, 0>>
    /\ pcWait = "wait"
    /\ waitResult = "pending"
    /\ waitCode = 0
    /\ waitCalls = 0
    /\ exit_status = FALSE
    /\ exit_code = None
    /\ exitSlot = None
    /\ exitRx = "held"
    /\ exitDelivered = <<>>
    /\ killLog = <<>>
    /\ queries = 0
    /\ lastQuery = NotYetExited

\* The output side: the reader task running, receiver 0 (initial_output_rx)
\* subscribed before it started.
InitOutput ==
    /\ ptyBuf = <<>>
    /\ nextByte = 1
    /\ slaveOpen = TRUE
    /\ pcReader = "reading"
    /\ lastRead = "none"
    /\ reads = <<>>
    /\ published = <<>>
    /\ subs = [s \in SubIds |->
                 [state |-> IF s = 0 THEN "active" ELSE "none", next |-> 1,
                  subAt |-> 0, late |-> FALSE, received |-> <<>>, missed |-> 0]]

\* The input side: the writer task at recv, the handle (0) and every producer
\* holding a Sender.
InitInput ==
    /\ inQueue = <<>>
    /\ senders = {0} \cup Producers
    /\ submitted = [p \in Producers |-> 0]
    /\ accepted = <<>>
    /\ pcWriter = "recv"
    /\ writerBuf = <<>>
    /\ writerLeft = <<>>
    /\ dequeued = <<>>
    /\ failedWrites = {}
    /\ failedFlush = 0
    /\ master = <<>>

\* A spawn_process call that returned Ok.
InitSpawned ==
    /\ program = <<"s", "h">>
    /\ sizeArg = Some(<<24, 80>>)
    /\ stdoutSize = [rc |-> -1, row |-> 0, col |-> 0]
    /\ stdinSize = [rc |-> -1, row |-> 0, col |-> 0]
    /\ envLines = None
    /\ envColumns = None
    /\ envArg = [k \in EnvKeys |-> IF k = "PATH" THEN Some("given") ELSE None]
    /\ ambientEnv = [k \in EnvKeys |-> Some("ambient")]
    /\ pcSpawn = "returned"
    /\ resolved = Some(<<24, 80>>)
    /\ ptySize = Some(<<24, 80>>)
    /\ spawnResult = "ok"
    /\ spawnTrace = <<"resolve_size", "openpty", "spawn_command", "clone_reader",
                      "take_writer", "start_wait">>
    /\ calls = 1
    /\ resultLog = <<"ok">>
    /\ ptysOpen = 1
    /\ childrenAlive = 1
    /\ tasksRunning = 3
    /\ handles = 1
    /\ childEnvLog = <<[request |-> envArg, ambient |-> ambientEnv,
                        child |-> ChildEnv(ambientEnv, envArg)]>>

\* A first spawn_process call about to start, with any inputs.
InitSpawn ==
    /\ program \in Programs
    /\ sizeArg \in SizeArgs
    /\ stdoutSize \in IoctlResults
    /\ stdinSize \in StdinResults
    /\ envLines \in EnvValues
    /\ envColumns \in EnvValues
    /\ envArg = [k \in EnvKeys |-> IF k = "PATH" THEN Some("given") ELSE None]
    /\ ambientEnv = [k \in EnvKeys |-> Some("ambient")]
    /\ pcSpawn = "check_program"
    /\ resolved = None
    /\ ptySize = None
    /\ spawnResult = "pending"
    /\ spawnTrace = <<>>
    /\ calls = 1
    /\ resultLog = <<>>
    /\ ptysOpen = 0
    /\ childrenAlive = 0
    /\ tasksRunning = 0
    /\ handles = 0
    /\ childEnvLog = <<>>

\* A first spawn_process call about to start, with an explicit size, any env
\* mapping and any environment of the supervisor.
InitSpawnEnv ==
    /\ program = <<"s", "h">>
    /\ sizeArg = Some(<<24, 80>>)
    /\ stdoutSize = [rc |-> -1, row |-> 0, col |-> 0]
    /\ stdinSize = [rc |-> -1, row |-> 0, col |-> 0]
    /\ envLines = None
    /\ envColumns = None
    /\ envArg \in EnvArgs
    /\ ambientEnv \in AmbientEnvs
    /\ pcSpawn = "check_program"
    /\ resolved = None
    /\ ptySize = None
    /\ spawnResult = "pending"
    /\ spawnTrace = <<>>
    /\ calls = 1
    /\ resultLog = <<>>
    /\ ptysOpen = 0
    /\ childrenAlive = 0
    /\ tasksRunning = 0
    /\ handles = 0
    /\ childEnvLog = <<>>

\* The exit side: the child, the wait task, terminate, the status query and
\* the primary exit receiver.
NextExit ==
    \/ ChildExit
    \/ terminate
    \/ WaitReturnsOk
    \/ WaitReturnsErr
    \/ WaitStoreFlag
    \/ WaitStoreCode
    \/ WaitSend
    \/ AwaitExit
    \/ RecvExit
    \/ DropExitRx
    \/ QueryExit

\* The state after spawn_process returned Ok.
\* The parts of the state a specification leaves alone.
InitSched ==
    /\ childReads = TRUE
    /\ unread = 0
    /\ otherRuns = 0

\* PromptSuggestionsSettings::default() and PromptSuggestionGate::default().
InitPromptDefault ==
    /\ settings = [enabled |-> FALSE, autorun_enabled |-> FALSE]
    /\ updates = <<>>
    /\ gate = [suggestions_enabled |-> FALSE, autorun_enabled |-> FALSE,
               intent |-> FALSE, is_review_mode |-> FALSE, task_running |-> FALSE,
               composer_empty |-> FALSE, no_modal_or_popup_active |-> FALSE,
               queued_user_messages_empty |-> FALSE]

\* handle has just been called.
InitHandle(inv) ==
    /\ invocation = inv
    /\ pcHandle = "match_payload"
    /\ args = None
    /\ forwarded = <<>>
    /\ response = "none"
    /\ handleResult = Pending

InitOthers ==
    /\ InitSched
    /\ InitPromptDefault
    /\ InitHandle([payload |-> "Function", parses |-> TRUE, questions |-> <<>>,
                   mode |-> "Default"])

InitRunning == InitExit /\ InitOutput /\ InitInput /\ InitSpawned /\ InitOthers

SpecExit == InitRunning /\ [][NextExit]_vars

\* The exit side with the handle's other operations interleaved.
NextHandle ==
    \/ NextExit
    \/ \E s \in SubIds : Subscribe(s)
    \/ \E p \in Producers : SubmitInput(p)

SpecHandle == InitRunning /\ [][NextHandle]_vars

\* The scheduling the runtime guarantees: the wait task runs on a thread of the
\* blocking pool, and an awaiting receiver is woken when a value is sent.
FairExit ==
    /\ WF_vars(WaitReturnsOk)
    /\ WF_vars(WaitStoreFlag)
    /\ WF_vars(WaitStoreCode)
    /\ WF_vars(WaitSend)
    /\ WF_vars(RecvExit)

FairSpecExit == SpecExit /\ FairExit

NextOutput ==
    \/ ChildWrite
    \/ ChildExit
    \/ ReadData
    \/ ReadEof
    \/ ReadInterrupted
    \/ ReadWouldBlock
    \/ ReaderWakes
    \/ ReadError
    \/ \E s \in SubIds : Subscribe(s)
    \/ \E s \in SubIds : RecvChunk(s)
    \/ \E s \in SubIds : DropSub(s)

SpecOutput == InitRunning /\ [][NextOutput]_vars

NextInput ==
    \/ \E p \in Producers : SubmitInput(p)
    \/ \E p \in {0} \cup Producers : DropSender(p)
    \/ WriterRecv
    \/ WriterClosed
    \/ WriteSome
    \/ WriteFails
    \/ WriterFlush
    \/ FlushFails

SpecInput == InitRunning /\ [][NextInput]_vars

\* The child's output and the reader loop, with no receiver taking part.
NextReader ==
    \/ ChildWrite
    \/ ChildExit
    \/ ReadData
    \/ ReadEof
    \/ ReadInterrupted
    \/ ReadWouldBlock
    \/ ReaderWakes
    \/ ReadError

\* The scheduling the runtime guarantees: the reader task has a thread of the
\* blocking pool to itself, so a read that has data or the end of the stream to
\* return does return it, and a sleep ends.
FairReader ==
    /\ WF_vars(ReadData)
    /\ WF_vars(ReadEof)
    /\ WF_vars(ReaderWakes)

FairSpecReader == InitRunning /\ [][NextReader]_vars /\ FairReader

\* The writer loop fed by one producer, every Sender dropped at some time or
\* other.
NextWriter ==
    \/ SubmitInput(1)
    \/ \E p \in {0} \cup Producers : DropSender(p)
    \/ WriterRecv
    \/ WriterClosed
    \/ WriteSome
    \/ WriteFails
    \/ WriterFlush
    \/ FlushFails

\* The scheduling the runtime guarantees: the writer task is polled whenever
\* its recv is ready, and a write or a flush it started returns.
FairWriter ==
    /\ WF_vars(WriterRecv)
    /\ WF_vars(WriterClosed)
    /\ WF_vars(WriteSome)
    /\ WF_vars(WriterFlush)

FairSpecWriter == InitRunning /\ [][NextWriter]_vars /\ FairWriter

\* The three tasks side by side: the child, the reader, the writer fed by one
\* producer, and the wait task.
NextTasks ==
    \/ ChildWrite
    \/ ChildExit
    \/ ReadData
    \/ ReadEof
    \/ ReadError
    \/ SubmitInput(1)
    \/ WriterRecv
    \/ WriteSome
    \/ WriteFails
    \/ WriterFlush
    \/ FlushFails
    \/ WaitReturnsOk
    \/ WaitReturnsErr
    \/ WaitStoreFlag
    \/ WaitStoreCode
    \/ WaitSend

SpecTasks == InitRunning /\ [][NextTasks]_vars

NextSpawn ==
    \/ CheckProgram
    \/ ResolveSize
    \/ OpenPty
    \/ SpawnCommand
    \/ CloneReader
    \/ TakeWriter
    \/ StartWaitAndReturn
    \/ CallerMovesOn
    \/ SpawnAgain

\* A first call of spawn_process about to start.
InitCalling == InitExit /\ InitOutput /\ InitInput /\ InitSpawn /\ InitOthers

SpecSpawn == InitCalling /\ [][NextSpawn]_vars


\* spawn_process called with the environments varying.
NextSpawnEnv ==
    \/ CheckProgram
    \/ ResolveSize
    \/ OpenPty
    \/ SpawnCommand
    \/ CloneReader
    \/ TakeWriter
    \/ StartWaitAndReturn
    \/ CallerMovesOn
    \/ SpawnAgainElsewhere

InitCallingEnv ==
    InitExit /\ InitOutput /\ InitInput /\ InitSpawnEnv /\ InitOthers

SpecSpawnEnv == InitCallingEnv /\ [][NextSpawnEnv]_vars


\* The writer task on its worker thread, with a child that may stop reading
\* its input, and the reader task beside it.
NextSched ==
    \/ \E p \in Producers : SubmitInput(p)
    \/ WriterRecv
    \/ WriteSome
    \/ WriterFlush
    \/ ChildStopsReading
    \/ OtherTaskRuns
    \/ ChildWrite
    \/ ReadData

SpecSched == InitRunning /\ [][NextSched]_vars


\* The prompt suggestion settings under any sequence of toggles, from settings
\* where autorun is not enabled while suggestions are disabled.
NextPrompt ==
    \/ ToggleEnabled
    \/ ToggleAutorun
    \/ BuildGate

InitPrompt ==
    /\ InitExit /\ InitOutput /\ InitInput /\ InitSpawned /\ InitSched
    /\ settings \in {st \in AllSettings : st.autorun_enabled => st.enabled}
    /\ updates = <<>>
    /\ gate \in Gates
    /\ InitHandle([payload |-> "Function", parses |-> TRUE, questions |-> <<>>,
                   mode |-> "Default"])

SpecPrompt == InitPrompt /\ [][NextPrompt]_vars


\* One call of the request_user_input handler, for every invocation.
NextHandleCall ==
    \/ MatchPayload
    \/ CheckMode
    \/ ParseArguments
    \/ ValidateAndForward
    \/ SessionResponds
    \/ SessionCancels
    \/ SerializeOk
    \/ SerializeFails

InitHandleCall ==
    /\ InitExit /\ InitOutput /\ InitInput /\ InitSpawned /\ InitSched
    /\ InitPromptDefault
    /\ \E inv \in Invocations : InitHandle(inv)

SpecHandleCall == InitHandleCall /\ [][NextHandleCall]_vars


(***************************************************************************)
(* Properties.                                                             *)
(***************************************************************************)
RECURSIVE IsSubseq(_, _)
\* a is b with some elements removed (the order kept)
IsSubseq(a, b) ==
    IF a = <<>> THEN TRUE
    ELSE IF b = <<>> THEN FALSE
    ELSE IF Head(a) = Head(b) THEN IsSubseq(Tail(a), Tail(b))
    ELSE IsSubseq(a, Tail(b))

IsPrefix(a, b) == Len(a) <= Len(b) /\ a = SubSeq(b, 1, Len(a))

RECURSIVE IsConcatOfWhole(_, _)
\* m is a concatenation of buffers of the set bufs
IsConcatOfWhole(m, bufs) ==
    \/ m = <<>>
    \/ \E b \in bufs :
          /\ IsPrefix(b, m)
          /\ IsConcatOfWhole(SubSeq(m, Len(b) + 1, Len(m)), bufs)

Range(f) == {f[i] : i \in DOMAIN f}

\* The wait task's code as the program defines it: the child's status as an
\* i32 when wait succeeded, -1 when it failed.
RecordedCode == IF waitResult = "ok" THEN AsI32(childStatus) ELSE -1

\* ---------------------------------------------------------------- C1
\* C1: the wait task waits on the child once (never twice, and once it is past
\* the wait exactly once); the exit-code cell, once written, keeps its value;
\* the exit-observed flag, once true, stays true; whatever terminate, query,
\* subscribe and submit-input calls are interleaved.
C1_ExitRecordedOnce ==
    /\ [](waitCalls <= 1)
    /\ [](pcWait # "wait" => waitCalls = 1)
    /\ [](pcWait \in {"wait", "store_flag"} => ~exit_status)
    /\ [](pcWait \in {"wait", "store_flag", "store_code"} => exit_code = None)
    /\ [][exit_code # None => exit_code' = exit_code]_vars
    /\ [][exit_status => exit_status']_vars

\* The monitor finished, with every other operation of the handle called.
C1_Witness ==
    /\ pcWait = "done"
    /\ exit_status
    /\ exit_code # None
    /\ Len(killLog) = 2
    /\ queries = 2
    /\ subs[1].state = "active"
    /\ Len(accepted) >= 2

\* ---------------------------------------------------------------- C2
\* C2 as stated: once the monitor is done with an exited child, the cell holds
\* the child's real exit status.
C2_CodeIsRealStatus ==
    (pcWait = "done" /\ child = "exited") =>
        (exit_status /\ exit_code = Some(AsI32(childStatus)))

\* C2 amended: once the child has exited the monitor eventually finishes, with
\* the flag set and the cell holding the child's status as an i32 when wait
\* succeeded and -1 when it failed; a receiver that is awaiting gets that code,
\* once; a send to a dropped receiver delivers nothing and the cell holds the
\* code all the same; an awaiting receiver does not wait forever.
C2_ExitEventuallyRecorded ==
    /\ (child = "exited") ~> (pcWait = "done")
    /\ [](pcWait = "done" => exit_status /\ exit_code = Some(RecordedCode))
    /\ [](Len(exitDelivered) <= 1)
    /\ [](exitRx = "received" => exitDelivered = <<RecordedCode>> /\ pcWait = "done")
    /\ [](exitRx = "dropped" => exitSlot = None)
    /\ [](exitRx # "received" => exitDelivered = <<>>)
    /\ (exitRx = "awaiting" /\ child = "exited") ~> (exitRx \in {"received", "dropped"})

\* The receiver got the real status of the child, and the cell holds it too.
C2_Witness ==
    /\ exitRx = "received"
    /\ waitResult = "ok"
    /\ childStatus = <<0, 3>>
    /\ exitDelivered = <<3>>
    /\ exit_code = Some(3)

\* ---------------------------------------------------------------- C3
\* C3: what a subscriber received is, in order, a selection of the chunks the
\* reader loop read: each received chunk is one read's bytes, and no two are
\* swapped (the reads hold different bytes, so a chunk names its read).
C3_ChunksInReadOrder ==
    \A s \in SubIds : IsSubseq(subs[s].received, reads)

\* Two subscribers receiving concurrently, one of them a two-byte read.
C3_Witness ==
    /\ Len(subs[0].received) >= 2
    /\ Len(subs[1].received) >= 2
    /\ \E i \in 1 .. Len(subs[1].received) : Len(subs[1].received[i]) = 2

\* ---------------------------------------------------------------- C4
\* C4 as stated: a subscriber has received every chunk published since it
\* subscribed, up to the one it will receive next, however slow it is.
C4_NoChunkLost ==
    \A s \in SubIds :
        subs[s].state = "active" =>
            subs[s].received = SubSeq(published, subs[s].subAt + 1, subs[s].next - 1)

\* C4 amended: a subscriber receives every chunk published since it
\* subscribed, in order, as long as it is never more chunks behind the reader
\* loop than the channel's capacity; only then does recv skip chunks (it
\* reports them as lagged), and what is received stays in order.
C4_NoChunkLostUnlessLagged ==
    /\ [](\A s \in SubIds :
            /\ subs[s].missed = 0 =>
                 subs[s].received = SubSeq(published, subs[s].subAt + 1, subs[s].next - 1)
            /\ Len(subs[s].received) + subs[s].missed = subs[s].next - 1 - subs[s].subAt
            /\ IsSubseq(subs[s].received,
                        SubSeq(published, subs[s].subAt + 1, Len(published))))
    /\ [][\A s \in SubIds :
            subs'[s].missed > subs[s].missed =>
                Len(published) - subs[s].next + 1 > OutputCapacity]_vars

\* The initial subscriber received four chunks, more than the channel holds,
\* and missed none.
C4_Witness ==
    /\ subs[0].missed = 0
    /\ Len(subs[0].received) = 4
    /\ subs[0].received = published

\* ---------------------------------------------------------------- C5
\* C5: every chunk a subscriber received was published after it subscribed; a
\* subscriber created after the reader loop ended receives nothing; dropping a
\* subscription changes no other subscription and nothing of the reader loop.
C5_OnlyLaterChunks ==
    /\ [](\A s \in SubIds :
            /\ \A i \in 1 .. Len(subs[s].received) :
                 \E j \in (subs[s].subAt + 1) .. Len(published) :
                    published[j] = subs[s].received[i]
            /\ subs[s].late => subs[s].received = <<>> /\ subs[s].next > Len(published))
    /\ [][\A s \in SubIds :
            (subs[s].state = "active" /\ subs'[s].state = "dropped") =>
                /\ \A t \in SubIds \ {s} : subs'[t] = subs[t]
                /\ UNCHANGED <<ptyBuf, pcReader, lastRead, reads, published>>]_vars

\* A subscriber that joined after two chunks and received a later one, the
\* initial subscription dropped meanwhile.
C5_Witness ==
    /\ subs[1].subAt = 2
    /\ subs[1].received # <<>>
    /\ subs[0].state = "dropped"
    /\ Len(published) >= 3

\* ---------------------------------------------------------------- C6
\* C6: with the flag unset, and so while the child runs unless wait failed,
\* the query answers "not yet exited"; once the code is stored it answers that
\* code, and the answer never changes again; a query changes neither the flag
\* nor the cell.
C6_QueryIdempotent ==
    /\ [](~exit_status => ExitStatusQuery = NotYetExited)
    /\ []((child = "running" /\ waitResult # "err") => ExitStatusQuery = NotYetExited)
    /\ [](exit_code # None =>
            ExitStatusQuery = [exited |-> TRUE, code |-> Some(RecordedCode)])
    /\ [][exit_code # None => ExitStatusQuery' = ExitStatusQuery]_vars
    /\ [][queries' # queries =>
            /\ lastQuery' = ExitStatusQuery
            /\ UNCHANGED <<exit_status, exit_code>>]_vars
    /\ [](queries < MaxQueries => ENABLED QueryExit)

\* Two queries made, the latest answering the stored code.
C6_Witness ==
    /\ queries = 2
    /\ lastQuery = [exited |-> TRUE, code |-> Some(3)]
    /\ pcWait = "done"

\* ---------------------------------------------------------------- C7
\* C7: terminate can be called in every state; a terminate call changes
\* neither the exit-observed flag nor the exit-code cell, in particular not a
\* code that was already recorded.
C7_TerminateKeepsExitState ==
    /\ [](Len(killLog) < MaxTerminate => ENABLED terminate)
    /\ [][killLog' # killLog => UNCHANGED <<exit_status, exit_code>>]_vars

\* terminate was called twice, the second time with the code already recorded,
\* and the code is still the recorded one.
C7_Witness ==
    /\ Len(killLog) = 2
    /\ killLog[2] # None
    /\ exit_code = killLog[2]
    /\ exit_code = Some(RecordedCode)

\* ---------------------------------------------------------------- C8
\* C8 as stated: between two buffers, the bytes written to the master are a
\* concatenation of whole submitted buffers.
C8_WholeBuffersOnly ==
    pcWriter \in {"recv", "done"} => IsConcatOfWhole(master, Range(accepted))

RECURSIVE WrittenAsPrefixes(_, _)
\* m is, for the dequeued buffers i, i+1, ..., the concatenation of one prefix
\* of each: the whole buffer, unless its write_all failed or is still running.
WrittenAsPrefixes(m, i) ==
    IF i > Len(dequeued) THEN m = <<>>
    ELSE \E k \in 0 .. Len(dequeued[i]) :
            /\ \/ k = Len(dequeued[i])
               \/ i \in failedWrites
               \/ i = Len(dequeued) /\ pcWriter = "write"
            /\ k <= Len(m)
            /\ SubSeq(m, 1, k) = SubSeq(dequeued[i], 1, k)
            /\ WrittenAsPrefixes(SubSeq(m, k + 1, Len(m)), i + 1)

\* C8 amended: the bytes written to the master are, in the order the buffers
\* were dequeued (which is the order they were accepted), the concatenation of
\* the submitted buffers, each written whole unless its write fails, in which
\* case only a prefix of it is written; bytes of two buffers never interleave.
C8_BuffersNeverInterleaved ==
    /\ IsPrefix(dequeued, accepted)
    /\ WrittenAsPrefixes(master, 1)

\* Buffers of both producers written whole, and one buffer's write failed.
C8_Witness ==
    /\ pcWriter = "recv"
    /\ failedWrites # {}
    /\ \E i, j \in 1 .. Len(dequeued) :
          /\ dequeued[i] = Buf(1, 1)
          /\ dequeued[j] = Buf(2, 1)
          /\ {i, j} \cap failedWrites = {}
    /\ IsSubseq(Buf(1, 1), master)
    /\ IsSubseq(Buf(2, 1), master)

\* ---------------------------------------------------------------- C9
\* C9: a call with an empty program returns the missing-program error from
\* the first step: it never resolves a size, opens no PTY, creates no child,
\* starts no task; calls that all had an empty program leave nothing
\* allocated.
C9_EmptyProgramFailsFirst ==
    /\ []((program = <<>> /\ pcSpawn # "idle") =>
            /\ pcSpawn \in {"check_program", "returned"}
            /\ spawnTrace = <<>>
            /\ resolved = None /\ ptySize = None
            /\ pcSpawn = "returned" => spawnResult = "err_program")
    /\ []((/\ pcSpawn \in {"returned", "idle"}
            /\ \A i \in 1 .. Len(resultLog) : resultLog[i] = "err_program") =>
            (ptysOpen = 0 /\ childrenAlive = 0 /\ tasksRunning = 0 /\ handles = 0))
    /\ [][(program = <<>> /\ pcSpawn = "check_program") =>
            UNCHANGED <<ptysOpen, childrenAlive, tasksRunning, handles>>]_vars

\* Two calls with an empty program were made, and nothing is allocated.
C9_Witness ==
    /\ resultLog = <<"err_program", "err_program">>
    /\ program = <<>>
    /\ pcSpawn = "returned"
    /\ ptysOpen = 0

\* ---------------------------------------------------------------- C10
\* The ioctl yields no usable size.
NoTerminalSize(io) == io.rc # 0 \/ io.row = 0 \/ io.col = 0
\* The variable is unset, or its value is no positive 16-bit integer.
UnusableEnv(v) ==
    v \in {None, Some(<<>>), Some(<<"0">>), Some(<<"x">>),
           Some(<<"7", "0", "0", "0", "0">>)}
\* A call (with a program) that has no size to find anywhere.
NoSizeAnywhere ==
    /\ pcSpawn # "idle"
    /\ program # <<>>
    /\ sizeArg = None
    /\ NoTerminalSize(stdoutSize)
    /\ NoTerminalSize(stdinSize)
    /\ UnusableEnv(envLines) \/ UnusableEnv(envColumns)

\* C10: a call with no explicit size, no terminal size and no usable
\* LINES/COLUMNS returns the missing-size error: it opens no PTY, creates no
\* child and starts no task.
C10_NoSizeFails ==
    /\ [](NoSizeAnywhere =>
            /\ pcSpawn \in {"check_program", "resolve_size", "returned"}
            /\ ptySize = None
            /\ \A i \in 1 .. Len(spawnTrace) : spawnTrace[i] = "resolve_size"
            /\ pcSpawn = "returned" => spawnResult = "err_size")
    /\ [][(NoSizeAnywhere /\ pcSpawn \in {"check_program", "resolve_size"}) =>
            UNCHANGED <<ptysOpen, childrenAlive, tasksRunning, handles>>]_vars

\* The call failed for want of a size, with LINES usable and COLUMNS not.
C10_Witness ==
    /\ NoSizeAnywhere
    /\ spawnResult = "err_size"
    /\ envLines = Some(<<"4", "2">>)
    /\ envColumns = Some(<<"x">>)
    /\ ptysOpen = 0

\* ---------------------------------------------------------------- C11
\* The call was given an explicit size with both dimensions at least 1.
ValidExplicitSize ==
    /\ pcSpawn # "idle"
    /\ program # <<>>
    /\ sizeArg # None
    /\ sizeArg[1][1] >= 1
    /\ sizeArg[1][2] >= 1

\* C11: in a call with an explicit size of at least 1 by 1, the size resolved
\* and the size the PTY is opened with are exactly the explicit size, whatever
\* the ioctls on stdout and stdin yield and whatever LINES and COLUMNS hold;
\* the call never fails for want of a size.
C11_ExplicitSizeUsed ==
    ValidExplicitSize =>
        /\ resolved \in {None, sizeArg}
        /\ ptySize \in {None, sizeArg}
        /\ pcSpawn \notin {"check_program", "resolve_size"} =>
              (resolved = sizeArg /\ spawnResult # "err_size")
        /\ pcSpawn \notin {"check_program", "resolve_size", "openpty"} =>
              (spawnResult = "err_openpty" \/ ptySize = sizeArg)

\* A PTY opened with the explicit size, with a terminal attached and LINES and
\* COLUMNS set to another size.
C11_Witness ==
    /\ ValidExplicitSize
    /\ sizeArg = Some(<<1, 65535>>)
    /\ ptySize = Some(<<1, 65535>>)
    /\ stdoutSize = [rc |-> 0, row |-> 40, col |-> 100]
    /\ stdinSize = [rc |-> 0, row |-> 50, col |-> 132]
    /\ envLines = Some(<<"4", "2">>)
    /\ envColumns = Some(<<"1", "2", "0">>)
    /\ spawnResult = "ok"

\* ---------------------------------------------------------------- C12
\* The positive integer a variable's value denotes, 0 when the variable is
\* missing, is no number, is zero or does not fit 16 bits.
PositiveValue(v) ==
    CASE v = Some(<<"+", "7">>) -> 7
      [] v = Some(<<"4", "2">>) -> 42
      [] v = Some(<<"1", "2", "0">>) -> 120
      [] OTHER -> 0

\* A call (with a program) that has only LINES and COLUMNS to go by.
OnlyEnvLeft ==
    /\ pcSpawn # "idle"
    /\ program # <<>>
    /\ sizeArg = None
    /\ NoTerminalSize(stdoutSize)
    /\ NoTerminalSize(stdinSize)

\* C12: parse_env_size yields (LINES, COLUMNS) when both variables denote a
\* positive integer, and nothing at all otherwise: no dimension is defaulted. A
\* call that has only the environment to go by resolves to exactly that size,
\* or fails for want of a size.
C12_EnvFallbackAsUnit ==
    LET rows == PositiveValue(envLines)
        cols == PositiveValue(envColumns)
    IN  /\ parse_env_size(envLines, envColumns) =
              IF rows > 0 /\ cols > 0 THEN Some(<<rows, cols>>) ELSE None
        /\ (OnlyEnvLeft /\ pcSpawn \notin {"check_program", "resolve_size"}) =>
              IF rows > 0 /\ cols > 0
              THEN resolved = Some(<<rows, cols>>) /\ spawnResult # "err_size"
              ELSE resolved = None /\ spawnResult = "err_size"

\* LINES = "42" and COLUMNS = "120" gave a PTY of 42 by 120.
C12_Witness ==
    /\ OnlyEnvLeft
    /\ envLines = Some(<<"4", "2">>)
    /\ envColumns = Some(<<"1", "2", "0">>)
    /\ resolved = Some(<<42, 120>>)
    /\ ptySize = Some(<<42, 120>>)
    /\ spawnResult = "ok"

\* ---------------------------------------------------------------- C13
\* The call resolved its size (or failed to).
SizeResolved ==
    /\ program # <<>>
    /\ pcSpawn \notin {"idle", "check_program", "resolve_size"}

\* The explicit size has a dimension of 0.
ExplicitZero == sizeArg # None /\ (sizeArg[1][1] = 0 \/ sizeArg[1][2] = 0)

\* The ioctl succeeded and reported a dimension of 0.
TerminalZero(io) == io.rc = 0 /\ (io.row = 0 \/ io.col = 0)

\* The size an ioctl outcome offers: none when the call failed or a dimension
\* is 0.
Offered(io) == IF NoTerminalSize(io) THEN None ELSE Some(<<io.row, io.col>>)

\* The size LINES and COLUMNS offer: none unless both are positive numbers.
OfferedByEnv ==
    IF PositiveValue(envLines) > 0 /\ PositiveValue(envColumns) > 0
    THEN Some(<<PositiveValue(envLines), PositiveValue(envColumns)>>)
    ELSE None

\* C13 as stated, for the explicit size: an explicit size with a dimension of
\* 0 counts as absent, so the size comes from the next sources (or the call
\* fails for want of one).
C13_ExplicitZeroIsAbsent ==
    (SizeResolved /\ ExplicitZero) =>
        IF OrElse(OrElse(Offered(stdoutSize), Offered(stdinSize)), OfferedByEnv) = None
        THEN spawnResult = "err_size"
        ELSE resolved = OrElse(OrElse(Offered(stdoutSize), Offered(stdinSize)),
                               OfferedByEnv)

\* C13 amended: a size with a dimension of 0 reported for stdout, for stdin or
\* by LINES/COLUMNS counts as absent and resolution goes on to the next source;
\* an explicit size with a dimension of 0 does not count as absent: it is the
\* resolved size, no other source is used, and each 0 is raised to 1; the size
\* the PTY is opened with has rows >= 1 and cols >= 1.
C13_ZeroAbsentUnlessExplicit ==
    /\ (SizeResolved /\ sizeArg = None /\ TerminalZero(stdoutSize)) =>
          resolved = OrElse(Offered(stdinSize), OfferedByEnv)
    /\ (SizeResolved /\ sizeArg = None /\ NoTerminalSize(stdoutSize)
          /\ TerminalZero(stdinSize)) =>
          resolved = OfferedByEnv
    /\ (SizeResolved /\ sizeArg = None /\ NoTerminalSize(stdoutSize)
          /\ NoTerminalSize(stdinSize) /\ OfferedByEnv = None) =>
          (resolved = None /\ spawnResult = "err_size")
    /\ (SizeResolved /\ ExplicitZero) =>
          /\ resolved = sizeArg
          /\ spawnResult # "err_size"
          /\ ptySize \in {None, Some(<<Max(sizeArg[1][1], 1), Max(sizeArg[1][2], 1)>>)}
    /\ ptySize # None => (ptySize[1][1] >= 1 /\ ptySize[1][2] >= 1)

\* An explicit size of 0 by 80 opened a PTY of 1 by 80, with a terminal of 40
\* by 100 on stdout.
C13_Witness ==
    /\ SizeResolved
    /\ sizeArg = Some(<<0, 80>>)
    /\ stdoutSize = [rc |-> 0, row |-> 40, col |-> 100]
    /\ resolved = Some(<<0, 80>>)
    /\ ptySize = Some(<<1, 80>>)
    /\ spawnResult = "ok"

\* ---------------------------------------------------------------- C14
\* C14: when child.wait() fails the task's code is -1 and the task goes on
\* through its three steps to the end: it sets the flag, stores -1 in the cell
\* and sends -1 on the exit channel, once (the send reaches the channel unless
\* the receiver was dropped; a receiver that gets a value gets -1 and only
\* that). The query then answers exited with -1, and keeps answering it.
C14_WaitFailureRecorded ==
    /\ [](waitResult = "err" => waitCode = -1)
    /\ (waitResult = "err") ~> (pcWait = "done")
    /\ []((waitResult = "err" /\ pcWait \in {"store_code", "send", "done"}) =>
            exit_status)
    /\ []((waitResult = "err" /\ pcWait \in {"send", "done"}) =>
            exit_code = Some(-1))
    /\ [][(waitResult = "err" /\ pcWait = "send" /\ pcWait' # "send") =>
            /\ pcWait' = "done"
            /\ exitSlot' = IF exitRx = "dropped" THEN None ELSE Some(-1)]_vars
    /\ []((waitResult = "err" /\ exitRx = "received") => exitDelivered = <<-1>>)
    /\ []((waitResult = "err" /\ pcWait = "done") =>
            ExitStatusQuery = [exited |-> TRUE, code |-> Some(-1)])
    /\ [][pcWait = "done" =>
            (pcWait' = "done" /\ UNCHANGED <<exit_status, exit_code>>)]_vars

\* The wait failed while the child still ran; the flag is set, the cell and
\* the receiver hold -1, and a query answered exited with -1.
C14_Witness ==
    /\ waitResult = "err"
    /\ pcWait = "done"
    /\ exit_status
    /\ exit_code = Some(-1)
    /\ exitRx = "received"
    /\ exitDelivered = <<-1>>
    /\ lastQuery = [exited |-> TRUE, code |-> Some(-1)]

\* ---------------------------------------------------------------- C15
\* The producer holds a Sender and has a buffer to submit.
WantsToSubmit(p) == p \in senders /\ submitted[p] < MaxSubmits

\* C15: the queue never holds more buffers than its capacity; the buffers
\* accepted are, in order, the buffers dequeued followed by the buffers still
\* queued (none lost, none twice, none out of order); a producer with a buffer
\* to submit can submit exactly when the queue is not full, and while the queue
\* is full no buffer is accepted and none is given up; when the writer loop has
\* ended it has dequeued every accepted buffer.
C15_QueueLosslessFifo ==
    /\ [](Len(inQueue) <= InputCapacity)
    /\ [](accepted = dequeued \o inQueue)
    /\ [](\A p \in Producers :
            WantsToSubmit(p) =>
                (ENABLED SubmitInput(p) <=> Len(inQueue) < InputCapacity))
    /\ [][Len(inQueue) = InputCapacity =>
            (accepted' = accepted /\ submitted' = submitted)]_vars
    /\ [](pcWriter = "done" => (dequeued = accepted /\ inQueue = <<>>))

\* The queue is full with a producer held back, after the writer loop took
\* buffers out of it.
C15_Witness ==
    /\ Len(inQueue) = InputCapacity
    /\ \E p \in Producers : WantsToSubmit(p) /\ ~ENABLED SubmitInput(p)
    /\ Len(dequeued) >= 1
    /\ Len(accepted) = Len(dequeued) + InputCapacity

\* ---------------------------------------------------------------- C16
\* The step in which a read fails with an error that ends the reader loop.
ReadErrorStep == pcReader = "reading" /\ pcReader' = "done" /\ lastRead' = "error"
\* The step in which write_all fails.
WriteErrorStep == failedWrites' # failedWrites
\* The step in which a flush fails (the first time).
FlushErrorStep == failedFlush' # failedFlush
\* What the handle reports of the exit: the flag, the cell, the exit channel.
exitReport == <<exit_status, exit_code, exitSlot, exitDelivered>>

\* C16: a read error ends the reader loop and changes nothing of the writer
\* loop, of the wait task or of what the handle reports of the exit; a write or
\* flush error leaves the writer loop running and changes nothing of the reader
\* loop, of the wait task or of that report. The flag is set, the cell written
\* and the exit code sent by the steps of the wait task alone, after
\* child.wait() returned; until then the query answers "not yet exited"
\* whatever I/O errors occurred.
C16_IoErrorsStayLocal ==
    /\ [][ReadErrorStep =>
            /\ UNCHANGED <<exitReport, pcWait, waitResult, waitCode, child>>
            /\ UNCHANGED <<inVars, published, subs>>]_vars
    /\ [][(WriteErrorStep \/ FlushErrorStep) =>
            /\ pcWriter' \in {"flush", "recv"}
            /\ UNCHANGED <<exitReport, pcWait, waitResult, waitCode, child>>
            /\ UNCHANGED <<outVars, inQueue, senders, accepted>>]_vars
    /\ [][exitReport' # exitReport =>
            /\ pcWait \in {"store_flag", "store_code", "send"}
            /\ pcWait' # pcWait
            /\ waitCalls = 1]_vars
    /\ [](pcWait = "wait" =>
            (exitReport = <<FALSE, None, None, <<>> >> /\ ExitStatusQuery = NotYetExited))
    /\ [](ExitStatusQuery # NotYetExited => waitResult \in {"ok", "err"})

\* A read error, a write error and a flush error occurred while the child ran
\* and was reported as running; later the child exited with status 3 and the
\* wait task recorded it.
C16_Witness ==
    /\ lastRead = "error"
    /\ pcReader = "done"
    /\ failedWrites # {}
    /\ failedFlush # 0
    /\ pcWriter = "recv"
    /\ pcWait = "done"
    /\ waitResult = "ok"
    /\ exit_code = Some(3)
    /\ exitSlot = Some(3)

\* ---------------------------------------------------------------- C17
\* C17: the environment of every child created is exactly the env mapping of
\* its call: a variable the mapping holds has the mapping's value, a variable
\* it does not hold is not set, whatever the supervisor's environment holds; so
\* two calls with the same mapping give their children the same environment.
C17_ChildEnvIsMapping ==
    /\ \A i \in 1 .. Len(childEnvLog) :
          \A k \in EnvKeys : childEnvLog[i].child[k] = childEnvLog[i].request[k]
    /\ \A i, j \in 1 .. Len(childEnvLog) :
          childEnvLog[i].request = childEnvLog[j].request =>
              childEnvLog[i].child = childEnvLog[j].child

\* Two children created with the same mapping under different environments of
\* the supervisor, one of which holds a variable the mapping does not.
C17_Witness ==
    /\ Len(childEnvLog) = 2
    /\ childEnvLog[1].request = childEnvLog[2].request
    /\ childEnvLog[1].ambient # childEnvLog[2].ambient
    /\ childEnvLog[1].request["TOKEN"] = None
    /\ childEnvLog[1].ambient["TOKEN"] = Some("ambient")
    /\ childEnvLog[1].request["PATH"] = Some("given")
    /\ childEnvLog[2].ambient["PATH"] = Some("ambient")
    /\ childEnvLog[2].child["TOKEN"] = None

\* ---------------------------------------------------------------- C18
\* The size the precedence order names: the explicit size if given, else the
\* window size of stdout if usable, else that of stdin if usable, else
\* LINES/COLUMNS if both are positive numbers, else none.
SizeByPrecedence ==
    IF sizeArg # None THEN sizeArg
    ELSE IF Offered(stdoutSize) # None THEN Offered(stdoutSize)
    ELSE IF Offered(stdinSize) # None THEN Offered(stdinSize)
    ELSE OfferedByEnv

\* C18: the size a call resolves is the one the precedence order names, and
\* the call fails for want of a size exactly when the order names none; in
\* particular a usable window size of stdout is taken although LINES and
\* COLUMNS are set.
C18_StrictPrecedence ==
    /\ SizeResolved =>
          IF SizeByPrecedence = None
          THEN resolved = None /\ spawnResult = "err_size"
          ELSE resolved = SizeByPrecedence /\ spawnResult # "err_size"
    /\ (SizeResolved /\ sizeArg = None /\ Offered(stdoutSize) # None) =>
          resolved = Some(<<stdoutSize.row, stdoutSize.col>>)

\* With no explicit size, stdout reporting 40 by 100, stdin 50 by 132 and
\* LINES/COLUMNS set to 42/120, the PTY is opened 40 by 100.
C18_Witness ==
    /\ SizeResolved
    /\ sizeArg = None
    /\ stdoutSize = [rc |-> 0, row |-> 40, col |-> 100]
    /\ stdinSize = [rc |-> 0, row |-> 50, col |-> 132]
    /\ envLines = Some(<<"4", "2">>)
    /\ envColumns = Some(<<"1", "2", "0">>)
    /\ resolved = Some(<<40, 100>>)
    /\ ptySize = Some(<<40, 100>>)

C20_ReaderLoop ==
    /\ [](published = reads /\ \A i \in 1 .. Len(published) : Len(published[i]) >= 1)
    /\ [][published' # published =>
            /\ pcReader = "reading" /\ pcReader' = "reading"
            /\ lastRead' = "data"
            /\ \E n \in 1 .. Len(ptyBuf) :
                  /\ published' = Append(published, SubSeq(ptyBuf, 1, n))
                  /\ ptyBuf' = SubSeq(ptyBuf, n + 1, Len(ptyBuf))]_vars
    /\ [][(pcReader = "reading" /\ lastRead' = "eof") =>
            (pcReader' = "done" /\ ptyBuf = <<>> /\ UNCHANGED <<published, reads>>)]_vars
    /\ [][(pcReader = "reading" /\ lastRead' = "interrupted") =>
            (pcReader' = "reading" /\ UNCHANGED <<published, reads>>)]_vars
    /\ [][(pcReader = "reading" /\ lastRead' = "would_block" /\ pcReader' # "reading") =>
            (pcReader' = "sleeping" /\ UNCHANGED <<published, reads>>)]_vars
    /\ [][pcReader = "sleeping" =>
            (pcReader' \in {"sleeping", "reading"} /\ UNCHANGED <<published, reads, lastRead>>)]_vars
    /\ [](pcReader = "sleeping" => (lastRead = "would_block" /\ ENABLED ReaderWakes))
    /\ [][(pcReader = "reading" /\ lastRead' = "error") => pcReader' = "done"]_vars
    /\ [](pcReader = "done" <=> lastRead \in {"eof", "error"})
    /\ [][pcReader = "done" =>
            (pcReader' = "done" /\ UNCHANGED <<published, reads, lastRead>>)]_vars
    /\ (~slaveOpen) ~> (pcReader = "done")

\* The child wrote four bytes and exited; the loop published them in chunks of
\* two bytes and ended on the read of 0 bytes.
C20_Witness ==
    /\ ~slaveOpen
    /\ pcReader = "done"
    /\ lastRead = "eof"
    /\ published = <<<<1, 2>>, <<3, 4>>>>
    /\ ptyBuf = <<>>

\* ---------------------------------------------------------------- C21
\* C21: none of the three blocking OS calls runs on a context shared with
\* cooperative work: a task inside its blocking call is on a blocking context
\* of its own, and while the write cannot return, because the child does not
\* read its input and the input buffer is full, the worker thread can still
\* run another task.
C21_BlockingCallsIsolated ==
    /\ \A t \in Tasks : InBlockingCall(t) => TaskContext[t] = "blocking"
    /\ (WriterStuck /\ otherRuns < MaxOtherRuns) => ENABLED OtherTaskRuns

\* ---------------------------------------------------------------- C22
\* C22 (as stated): on normal completion the reader loop observes end-of-stream
\* and ends only after the exit code has been recorded.
C22_ReaderEndsAfterRecord ==
    (pcReader = "done" /\ lastRead = "eof") => exit_code # None

\* C22 (amended): on normal completion the child exits first: the reader loop
\* ends on end-of-stream only after the child exited, and a wait that succeeded
\* returned, and its code was recorded, only after the child exited; the code
\* recorded is the child's status.  The two tasks are not ordered with respect
\* to each other.
C22_ExitFirstThenEitherOrder ==
    /\ (pcReader = "done" /\ lastRead = "eof") => child = "exited"
    /\ waitResult = "ok" => child = "exited"
    /\ (waitResult = "ok" /\ exit_code # None) => exit_code = Some(AsI32(childStatus))

\* The reader loop ended on end-of-stream while the wait task has not yet
\* returned from child.wait().
C22_Witness ==
    /\ child = "exited"
    /\ pcReader = "done"
    /\ lastRead = "eof"
    /\ pcWait = "wait"
    /\ exit_code = None

\* ---------------------------------------------------------------- C23
\* C23: whenever spawn_process has returned, with an error or not, whatever
\* it started is owned by a handle it returned: a call that returns an error
\* leaves no child running, no task running and no PTY open.
C23_ErrorLeavesNothing ==
    pcSpawn \in {"returned", "idle"} =>
        /\ childrenAlive = handles
        /\ tasksRunning = 3 * handles
        /\ ptysOpen = handles

\* ---------------------------------------------------------------- C24
\* C24 (as stated): whenever the exit-observed flag is true the exit-code cell
\* holds a code, and whenever the primary receiver has received a code the
\* cell holds that code.
C24_FlagImpliesCode ==
    /\ exit_status => exit_code # None
    /\ exitDelivered # <<>> => exit_code = Some(exitDelivered[1])

\* C24 (amended): whenever the exit-code cell holds a code the exit-observed
\* flag is true; the flag is set while the cell is still empty only while the
\* wait task is between its flag store and its cell write; and whenever the
\* primary receiver has received a code the cell holds that code.
C24_CodeImpliesFlag ==
    /\ exit_code # None => exit_status
    /\ (exit_status /\ exit_code = None) => pcWait = "store_code"
    /\ exitDelivered # <<>> => exit_code = Some(exitDelivered[1])

\* The wait task has set the flag and not yet written the cell.
C24_Witness ==
    /\ exit_status
    /\ exit_code = None
    /\ pcWait = "store_code"
    /\ waitResult = "ok"

\* ---------------------------------------------------------------- C25
\* The updates a toggle has to report: each feature whose value differs
\* between the two settings, with its new value.
ChangedFeatures(old, new) ==
    {<<"PromptSuggestions", new.enabled>> : x \in {y \in {1} : old.enabled # new.enabled}}
    \cup {<<"PromptSuggestionsAutorun", new.autorun_enabled>> :
             x \in {y \in {1} : old.autorun_enabled # new.autorun_enabled}}

\* C25: from settings where autorun is not enabled while suggestions are
\* disabled, every sequence of toggle_enabled and toggle_autorun keeps
\* autorun_enabled => enabled; the update list a toggle returns holds exactly
\* the features whose value the toggle changed, each once and with its new
\* value; and a gate that can autorun can open the view.
C25_TogglesKeepInvariant ==
    /\ [](settings.autorun_enabled => settings.enabled)
    /\ [][settings' # settings =>
            /\ Range(updates') = ChangedFeatures(settings, settings')
            /\ Len(updates') = Cardinality(Range(updates'))]_vars
    /\ [](can_autorun(gate) => can_open_view(gate))

\* Suggestions were switched off while autorun was on: the toggle reported
\* both features, and the gate at hand can autorun.
C25_Witness ==
    /\ settings = [enabled |-> FALSE, autorun_enabled |-> FALSE]
    /\ updates = << <<"PromptSuggestions", FALSE>>, <<"PromptSuggestionsAutorun", FALSE>> >>
    /\ can_autorun(gate)

\* ---------------------------------------------------------------- C26
\* Some question of the invocation has no options, or an empty list of them.
SomeOptionsMissing ==
    \E i \in 1 .. Len(invocation.questions) : OptionsMissing(invocation.questions[i])

\* C26: a request is forwarded to the session only when every question has a
\* non-empty options list, and every question of a forwarded request has
\* is_other set; a payload that is not a function call, and arguments with a
\* question whose options are missing or empty, yield a respond-to-model error
\* with no request sent; a cancelled request yields a respond-to-model error;
\* an output is returned only after a response was received, and it is marked
\* successful; no collaboration mode makes the tool unavailable.
C26_HandlerForwardsOnlyValid ==
    /\ \A i \in 1 .. Len(forwarded) :
          /\ forwarded[i].questions =
                 [k \in 1 .. Len(invocation.questions) |->
                     [invocation.questions[k] EXCEPT !.is_other = TRUE]]
          /\ \A k \in 1 .. Len(forwarded[i].questions) :
                /\ ~OptionsMissing(forwarded[i].questions[k])
                /\ forwarded[i].questions[k].is_other
    /\ forwarded # <<>> =>
          (invocation.payload = "Function" /\ invocation.parses /\ ~SomeOptionsMissing)
    /\ (/\ pcHandle = "returned"
        /\ \/ invocation.payload # "Function"
           \/ invocation.parses /\ SomeOptionsMissing) =>
          (handleResult.kind = "RespondToModel" /\ forwarded = <<>>)
    /\ response = "cancelled" =>
          (pcHandle = "returned" /\ handleResult.kind = "RespondToModel")
    /\ handleResult.kind = "Ok" =>
          (response = "received" /\ handleResult.success = Some(TRUE)
           /\ Len(forwarded) = 1)
    /\ \A mode \in ModeKind : request_user_input_unavailable_message(mode) = None
    /\ (pcHandle = "returned" /\ handleResult.kind = "RespondToModel") =>
          handleResult.message \in
              {"unsupported payload", "requires non-empty options", "cancelled"}

\* In Plan mode a request with two questions, one of which came with is_other
\* unset, was forwarded and answered, and handle returned the output.
C26_Witness ==
    /\ invocation.mode = "Plan"
    /\ Len(invocation.questions) = 2
    /\ ~invocation.questions[1].is_other
    /\ Len(forwarded) = 1
    /\ forwarded[1].questions[1].is_other
    /\ response = "received"
    /\ handleResult.kind = "Ok"

=============================================================================
